---- MODULE Spec2Model ----
(***************************************************************************)
(* A model of the Snek compiler (src/src/compiler.rs), of the x86-64 code  *)
(* it emits, executed on an abstract machine, and of the runtime helpers   *)
(* it is linked with (src/runtime/start.rs).                               *)
(*                                                                         *)
(* Machine words are WordBits wide instead of 64: a number is a            *)
(* (WordBits-1)-bit signed integer shifted left by one, exactly as the     *)
(* 63-bit numbers of the program sit in 64-bit words.                      *)
(***************************************************************************)
EXTENDS Integers, Sequences, FiniteSets, TLC

\* ------------------------------------------------------------------------
\* Words
\* ------------------------------------------------------------------------

\* Width of a machine word of the model (64 in the program).
WordBits == 10

RECURSIVE Pow2(_)
Pow2(n) == IF n = 0 THEN 1 ELSE 2 * Pow2(n - 1)

Modulus == Pow2(WordBits)
MinWord == -Pow2(WordBits - 1)
MaxWord == Pow2(WordBits - 1) - 1

InWord(x) == MinWord <= x /\ x <= MaxWord

\* The two's complement word an exact integer result is truncated to.
Wrap(x) == ((x - MinWord) % Modulus) + MinWord

\* x << n and x >> n (arithmetic) on exact integers.
Shl(x, n) == x * Pow2(n)
Sar1(x) == (x - (x % 2)) \div 2

RECURSIVE BitsOp(_, _, _, _)
BitsOp(op, a, b, n) ==
    IF n = 0 THEN 0
    ELSE LET x == a % 2
             y == b % 2
             z == CASE op = "and" -> IF x = 1 /\ y = 1 THEN 1 ELSE 0
                    [] op = "or"  -> IF x = 1 \/ y = 1 THEN 1 ELSE 0
                    [] op = "xor" -> IF x # y THEN 1 ELSE 0
         IN z + 2 * BitsOp(op, (a - x) \div 2, (b - y) \div 2, n - 1)

BitAnd(a, b) == Wrap(BitsOp("and", a % Modulus, b % Modulus, WordBits))
BitOr(a, b)  == Wrap(BitsOp("or", a % Modulus, b % Modulus, WordBits))
BitXor(a, b) == Wrap(BitsOp("xor", a % Modulus, b % Modulus, WordBits))
BitNot(a)    == -a - 1

\* ------------------------------------------------------------------------
\* Constants (src/src/constants.rs, src/runtime/start.rs)
\* ------------------------------------------------------------------------

WORD_SIZE == 8

I63_MIN == -Pow2(WordBits - 2)
I63_MAX == Pow2(WordBits - 2) - 1

NIL_VAL == 1
FALSE_VAL == 3
TRUE_VAL == 7
BOOLEAN_LSB == 3

ERR_NUM_OVERFLOW == 1
ERR_INVALID_TYPE == 2
ERR_INDEX_OUT_OF_BOUNDS == 3
ERR_NOT_HEAP_ADDRESS == 4
ERR_NOT_INDEX_OFFSET == 5

\* enum ErrCode
ErrCode == [Overflow |-> 1, InvalidType |-> 2, IndexOutOfBounds |-> 3, InvalidVecSize |-> 4]

NUM_OVERFLOW_LABEL == "error_numeric_overflow"
INVALID_TYPE_LABEL == "error_invalid_type"
INDEX_OUT_OF_BOUNDS_LABEL == "error_index_out_of_bounds"
NOT_HEAP_ADDRESS_LABEL == "error_not_heap_address"
NOT_INDEX_OFFSET_LABEL == "error_not_index_offset"

\* ------------------------------------------------------------------------
\* Abstract syntax (src/src/abstract_syntax.rs)
\* ------------------------------------------------------------------------

ENumber(n)           == [t |-> "Number", n |-> n]
EBoolean(b)          == [t |-> "Boolean", b |-> b]
ENil                 == [t |-> "Nil"]
EId(s)               == [t |-> "Id", s |-> s]
ELet(bindings, body) == [t |-> "Let", bindings |-> bindings, body |-> body]
EUnOp(op, e)         == [t |-> "UnOp", op |-> op, e |-> e]
EBinOp(op, e1, e2)   == [t |-> "BinOp", op |-> op, e1 |-> e1, e2 |-> e2]
EIf(c, thn, els)     == [t |-> "If", cond |-> c, then_ex |-> thn, else_ex |-> els]
ELoop(e)             == [t |-> "Loop", e |-> e]
EBreak(e)            == [t |-> "Break", e |-> e]
ESet(name, e)        == [t |-> "Set", name |-> name, e |-> e]
EBlock(exprs)        == [t |-> "Block", exprs |-> exprs]
EFunCall(f, args)    == [t |-> "FunCall", funname |-> f, args |-> args]
ETuple(args)         == [t |-> "Tuple", args |-> args]
EIndex(addr, offset) == [t |-> "Index", addr |-> addr, offset |-> offset]

\* The expressions of src/src/syntax.rs that abstract_syntax.rs does not have.
EInput              == [t |-> "Input"]
ECall(f, args)      == [t |-> "Call", funname |-> f, args |-> args]
EVec(args)          == [t |-> "Vec", args |-> args]
EVecGet(e1, e2)     == [t |-> "VecGet", e1 |-> e1, e2 |-> e2]
EVecSet(e1, e2, e3) == [t |-> "VecSet", e1 |-> e1, e2 |-> e2, e3 |-> e3]
EVecLen(e)          == [t |-> "VecLen", e |-> e]
EMakeVec(e1, e2)    == [t |-> "MakeVec", e1 |-> e1, e2 |-> e2]

\* S-expressions (the sexp crate): atoms of a string or an integer, and lists.
AtomS(s) == [k |-> "S", s |-> s]
AtomI(i) == [k |-> "I", i |-> i]
List(items) == [k |-> "List", items |-> items]

\* The runs of programs given as syntax trees have no S-expression.
NoSexp == List(<<>>)

Definition(name, params, body) == [name |-> name, params |-> params, body |-> body]
Program(defs, main) == [defs |-> defs, main |-> main]

\* ------------------------------------------------------------------------
\* Instructions (src/src/assembly.rs)
\* ------------------------------------------------------------------------

NoVal == [k |-> "None", r |-> "", n |-> 0]
Reg(r)       == [k |-> "Reg", r |-> r, n |-> 0]
Imm(n)       == [k |-> "Imm", r |-> "", n |-> n]
\* Offsets are subtracted from the register.
RegOff(r, n) == [k |-> "RegOff", r |-> r, n |-> n]

I2(op, a, b) == [op |-> op, a |-> a, b |-> b, l |-> ""]
IL(op, l)    == [op |-> op, a |-> NoVal, b |-> NoVal, l |-> l]

Mov(a, b)    == I2("Mov", a, b)
Add(a, b)    == I2("Add", a, b)
Sub(a, b)    == I2("Sub", a, b)
Mul(a, b)    == I2("Mul", a, b)
Cmp(a, b)    == I2("Cmp", a, b)
Test(a, b)   == I2("Test", a, b)
CMove(a, b)  == I2("CMove", a, b)
CMovg(a, b)  == I2("CMovg", a, b)
CMovge(a, b) == I2("CMovge", a, b)
CMovl(a, b)  == I2("CMovl", a, b)
CMovle(a, b) == I2("CMovle", a, b)
Sar(a, b)    == I2("Sar", a, b)
And(a, b)    == I2("And", a, b)
Or(a, b)     == I2("Or", a, b)
Xor(a, b)    == I2("Xor", a, b)
Not(a)       == I2("Not", a, NoVal)
Push(a)      == I2("Push", a, NoVal)
Pop(a)       == I2("Pop", a, NoVal)
Ret          == I2("Ret", NoVal, NoVal)
Label(l)            == IL("Label", l)
Jump(l)             == IL("Jump", l)
JumpEqual(l)        == IL("JumpEqual", l)
JumpNotEqual(l)     == IL("JumpNotEqual", l)
JumpNotZero(l)      == IL("JumpNotZero", l)
JumpGreaterEqual(l) == IL("JumpGreaterEqual", l)
JumpLess(l)         == IL("JumpLess", l)
JumpOverflow(l)     == IL("JumpOverflow", l)
Call(l)             == IL("Call", l)

RAX == Reg("RAX")
RBX == Reg("RBX")
RDI == Reg("RDI")
RSI == Reg("RSI")
RDX == Reg("RDX")
R12 == Reg("R12")
R13 == Reg("R13")
R14 == Reg("R14")
R15 == Reg("R15")
RSP == Reg("RSP")

\* ------------------------------------------------------------------------
\* The compiler (src/src/compiler.rs)
\* ------------------------------------------------------------------------

\* The result of compiling: the instructions, the value LABEL_CTR is left
\* with, and the message of the panic that aborted the compilation ("" when
\* there was none).
Ok(is, ctr)     == [instrs |-> is, ctr |-> ctr, err |-> ""]
Panic(msg, ctr) == [instrs |-> <<>>, ctr |-> ctr, err |-> msg]
Then(r, is)     == IF r.err # "" THEN r ELSE [r EXCEPT !.instrs = r.instrs \o is]
Join(r1, r2)    == IF r1.err # "" THEN r1
                   ELSE IF r2.err # "" THEN r2
                   ELSE Ok(r1.instrs \o r2.instrs, r2.ctr)

EmptyEnv == [x \in {} |-> 0]
EnvUpdate(env, id, v) == [x \in (DOMAIN env) \cup {id} |-> IF x = id THEN v ELSE env[x]]

int_overflow(i) == i < I63_MIN \/ i > I63_MAX

\* Reads LABEL_CTR, increments it, and formats the label.
get_new_label(s, ctr) == [label |-> s \o "_" \o ToString(ctr), ctr |-> ctr + 1]

get_num_overflow_instrs(ctxt) == <<JumpOverflow(NUM_OVERFLOW_LABEL)>>

is_number(ctxt) ==
    << Mov(RBX, RAX), Not(RBX), And(RBX, Imm(1)), Cmp(RBX, Imm(1)) >>

is_number_with_error(ctxt) ==
    is_number(ctxt) \o <<JumpNotEqual(INVALID_TYPE_LABEL)>>

is_boolean(ctxt) ==
    << Mov(RBX, RAX), And(RBX, Imm(3)), And(RBX, Imm(BOOLEAN_LSB)),
       Cmp(RBX, Imm(BOOLEAN_LSB)) >>

is_heap_address(ctxt) ==
    << Mov(RBX, RAX), And(RBX, Imm(1)), Cmp(RBX, Imm(1)) >>

is_heap_address_with_error(ctxt) ==
    is_heap_address(ctxt) \o <<JumpNotEqual(NOT_HEAP_ADDRESS_LABEL)>>

\* Only the low bit of the two operands compared.
are_same_types_low_bit(stack_offset, ctxt) ==
    << Mov(RBX, RAX),
       Xor(RBX, RegOff("RSP", stack_offset)),
       Test(RBX, Imm(1)),
       JumpNotZero(INVALID_TYPE_LABEL) >>

\* The operand in RAX and the one in the stack slot are both numbers, both
\* booleans or both pointers (nil included).
are_same_types(stack_offset, ctxt) ==
    << Mov(RBX, RAX),
       Xor(RBX, RegOff("RSP", stack_offset)),
       Test(RBX, Imm(1)),
       JumpNotZero(INVALID_TYPE_LABEL),
       Mov(R12, RAX),
       And(R12, Imm(1)),
       And(RBX, Imm(3)),
       Xor(R12, RBX),
       Cmp(R12, Imm(3)),
       JumpEqual(INVALID_TYPE_LABEL) >>

get_inequality_instrs(ctxt) ==
    LET stack_offset == ctxt.si * WORD_SIZE
    IN << Mov(RBX, RAX),
          Or(RBX, RegOff("RSP", stack_offset)),
          Test(RBX, Imm(1)),
          JumpNotEqual(INVALID_TYPE_LABEL),
          Cmp(RegOff("RSP", stack_offset), RAX),
          Mov(RBX, Imm(TRUE_VAL)),
          Mov(RAX, Imm(FALSE_VAL)) >>

\* The conditional move of each ordering (Op2::Greater .. Op2::LessEqual).
\* The conditional moves of > and < exchanged with those of <= and >=.
InequalityCMovLoose(op) ==
    CASE op = "Greater"      -> CMovge(RAX, RBX)
      [] op = "GreaterEqual" -> CMovg(RAX, RBX)
      [] op = "Less"         -> CMovle(RAX, RBX)
      [] op = "LessEqual"    -> CMovl(RAX, RBX)

\* The conditional move that materialises the comparison.
InequalityCMov(op) ==
    CASE op = "Greater"      -> CMovg(RAX, RBX)
      [] op = "GreaterEqual" -> CMovge(RAX, RBX)
      [] op = "Less"         -> CMovl(RAX, RBX)
      [] op = "LessEqual"    -> CMovle(RAX, RBX)

\* Minus as e2 - e1.
ArithInstrsReversed(op, stack_offset) ==
    CASE op = "Plus"  -> << Add(RAX, RegOff("RSP", stack_offset)) >>
      [] op = "Minus" -> << Sub(RAX, RegOff("RSP", stack_offset)) >>
      [] op = "Times" -> << Sar(RAX, Imm(1)),
                            Mul(RAX, RegOff("RSP", stack_offset)) >>

\* The instructions that combine e1 (in its stack slot) and e2 (in RAX).
ArithInstrs(op, stack_offset) ==
    CASE op = "Plus"  -> << Add(RAX, RegOff("RSP", stack_offset)) >>
      [] op = "Minus" -> << Mov(RBX, RAX),
                            Mov(RAX, RegOff("RSP", stack_offset)),
                            Sub(RAX, RBX) >>
      [] op = "Times" -> << Sar(RAX, Imm(1)),
                            Mul(RAX, RegOff("RSP", stack_offset)) >>

\* No type check of the operand.
ArithNoTypeCheck == << >>

\* The type check of one operand of +, - and *.
ArithTypeCheck ==
    << Test(RAX, Imm(1)), JumpNotZero(INVALID_TYPE_LABEL) >>

\* The extra word that keeps RSP 16-byte aligned at a call.
PrintAlignmentOffset(si) == IF (si + 1) % 2 # 0 THEN WORD_SIZE ELSE 0
CallAlignmentOffset(si, nargs) == IF (si + nargs + 1) % 2 # 0 THEN WORD_SIZE ELSE 0

\* What is added to the address of a tuple to tag it.
TupleTagBoolean == 1 + 2
TupleTag == 1

\* The header word a tuple of k elements is given.
TupleHeader(k) == Shl(k, 1)

RECURSIVE compile_expr(_, _, _)
RECURSIVE compile_bindings(_, _, _, _, _, _)
RECURSIVE compile_block(_, _, _, _)
RECURSIVE compile_args(_, _, _, _, _)
RECURSIVE compile_tuple_args(_, _, _, _)

\* Expr::UnOp(Op1::Add1 | Op1::Sub1, e)
compile_add1_sub1(op, e, ctxt, ctr) ==
    Then(compile_expr(e, ctxt, ctr),
         is_number_with_error(ctxt)
         \o << IF op = "Add1" THEN Add(RAX, Imm(Shl(1, 1)))
                              ELSE Sub(RAX, Imm(Shl(1, 1))) >>
         \o get_num_overflow_instrs(ctxt))

\* Expr::UnOp(Op1::IsNum | Op1::IsBool, e)
compile_is(op, e, ctxt, ctr) ==
    Then(compile_expr(e, ctxt, ctr),
         (IF op = "IsNum" THEN is_number(ctxt) ELSE is_boolean(ctxt))
         \o << Mov(RAX, Imm(FALSE_VAL)), Mov(RBX, Imm(TRUE_VAL)), CMove(RAX, RBX) >>)

\* Expr::UnOp(Op1::Print, e)
compile_print(e, ctxt, ctr) ==
    LET alignment_offset == PrintAlignmentOffset(ctxt.si)
        rdi_offset == ctxt.si * WORD_SIZE + alignment_offset
        rsp_offset == (ctxt.si * WORD_SIZE) + alignment_offset
    IN Then(compile_expr(e, ctxt, ctr),
            << Mov(RegOff("RSP", rdi_offset), RDI),
               Mov(RDI, RAX),
               Sub(RSP, Imm(rsp_offset)),
               Call("snek_print"),
               Add(RSP, Imm(rsp_offset)),
               Mov(RDI, RegOff("RSP", rdi_offset)) >>)

\* Expr::BinOp(Plus | Minus | Times, e1, e2)
compile_arith(op, e1, e2, ctxt, ctr) ==
    LET stack_offset == ctxt.si * WORD_SIZE
        e2_ctxt == [ctxt EXCEPT !.si = ctxt.si + 1]
        r1 == Then(compile_expr(e1, ctxt, ctr),
                   ArithTypeCheck \o << Mov(RegOff("RSP", stack_offset), RAX) >>)
        r2 == Then(compile_expr(e2, e2_ctxt, r1.ctr),
                   ArithTypeCheck
                   \o ArithInstrs(op, stack_offset)
                   \o get_num_overflow_instrs(ctxt))
    IN Join(r1, r2)

\* Expr::BinOp(Equal | Greater | GreaterEqual | Less | LessEqual, e1, e2)
compile_logical(op, e1, e2, ctxt, ctr) ==
    LET stack_offset == ctxt.si * WORD_SIZE
        e2_ctxt == [ctxt EXCEPT !.si = ctxt.si + 1]
        r1 == Then(compile_expr(e1, ctxt, ctr),
                   << Mov(RegOff("RSP", stack_offset), RAX) >>)
        r2 == Then(compile_expr(e2, e2_ctxt, r1.ctr),
                   IF op = "Equal"
                   THEN are_same_types(stack_offset, ctxt)
                        \o << Cmp(RAX, RegOff("RSP", stack_offset)),
                              Mov(RBX, Imm(TRUE_VAL)),
                              Mov(RAX, Imm(FALSE_VAL)),
                              CMove(RAX, RBX) >>
                   ELSE get_inequality_instrs(ctxt) \o << InequalityCMov(op) >>)
    IN Join(r1, r2)

\* The right-hand side already sees the name it is bound to.
RhsEnvWithOwnName(new_env, id, id_stack_index) ==
    EnvUpdate(new_env, id, id_stack_index * WORD_SIZE)

\* The environment the right-hand side of a binding is compiled in: new_env
\* as the bindings before it left it.
RhsEnv(new_env, id, id_stack_index) == new_env

\* The binding loop of Expr::Let, from binding i on; env is the environment
\* the bindings before i have produced.
compile_bindings(bindings, i, ctxt, new_env, locally_bound_ids, ctr) ==
    IF i > Len(bindings)
    THEN [instrs |-> <<>>, ctr |-> ctr, err |-> "", env |-> new_env]
    ELSE
      LET id == bindings[i][1]
          e  == bindings[i][2]
          id_stack_index == ctxt.si + (i - 1)
          r == compile_expr(e, [ctxt EXCEPT !.si = id_stack_index,
                                            !.env = RhsEnv(new_env, id, id_stack_index)], ctr)
          rest == compile_bindings(bindings, i + 1, ctxt,
                                   EnvUpdate(new_env, id, id_stack_index * WORD_SIZE),
                                   locally_bound_ids \cup {id}, r.ctr)
      IN IF id \in locally_bound_ids
         THEN [instrs |-> <<>>, ctr |-> ctr, err |-> "Duplicate binding", env |-> new_env]
         ELSE IF r.err # ""
         THEN [instrs |-> <<>>, ctr |-> r.ctr, err |-> r.err, env |-> new_env]
         ELSE [instrs |-> r.instrs
                          \o << Mov(RegOff("RSP", id_stack_index * WORD_SIZE), RAX) >>
                          \o rest.instrs,
               ctr |-> rest.ctr, err |-> rest.err, env |-> rest.env]

\* Expr::Let(bindings, body)
compile_let(bindings, body, ctxt, ctr) ==
    LET bs == compile_bindings(bindings, 1, ctxt, ctxt.env, {}, ctr)
        body_stack_index == ctxt.si + Len(bindings)
        rb == compile_expr(body, [ctxt EXCEPT !.si = body_stack_index, !.env = bs.env],
                           bs.ctr)
    IN Join([instrs |-> bs.instrs, ctr |-> bs.ctr, err |-> bs.err], rb)

\* Expr::If(cond, then_ex, else_ex)
compile_if(cond, then_ex, else_ex, ctxt, ctr) ==
    LET l1 == get_new_label("ifend", ctr)
        l2 == get_new_label("ifelse", l1.ctr)
        end_label == l1.label
        else_label == l2.label
        rc == Then(compile_expr(cond, ctxt, l2.ctr),
                   << Cmp(RAX, Imm(FALSE_VAL)), JumpEqual(else_label) >>)
        rt == Then(compile_expr(then_ex, ctxt, rc.ctr),
                   << Jump(end_label), Label(else_label) >>)
        re == Then(compile_expr(else_ex, ctxt, rt.ctr), << Label(end_label) >>)
    IN Join(Join(rc, rt), re)

\* Expr::Block(exprs), from expression i on
compile_block(exprs, i, ctxt, ctr) ==
    IF i > Len(exprs) THEN Ok(<<>>, ctr)
    ELSE LET r == compile_expr(exprs[i], ctxt, ctr)
         IN Join(r, compile_block(exprs, i + 1, ctxt, r.ctr))

\* Expr::Set(name, e)
compile_set(name, e, ctxt, ctr) ==
    IF name \notin DOMAIN ctxt.env
    THEN Panic("Unbound variable identifier " \o name, ctr)
    ELSE Then(compile_expr(e, ctxt, ctr),
              << Mov(RegOff("RSP", ctxt.env[name]), RAX) >>)

\* The end label of the outermost loop kept for the loops inside it.
LoopBreakLabelOutermost(ctxt, end_label) ==
    IF ctxt.break_label # "" THEN ctxt.break_label ELSE end_label

\* The break label the body of a loop is compiled with: the loop's end_label.
LoopBreakLabel(ctxt, end_label) == end_label

\* Expr::Loop(e)
compile_loop(e, ctxt, ctr) ==
    LET l1 == get_new_label("loop", ctr)
        l2 == get_new_label("endloop", l1.ctr)
        start_label == l1.label
        end_label == l2.label
        r == compile_expr(e, [ctxt EXCEPT !.break_label = LoopBreakLabel(ctxt, end_label)],
                          l2.ctr)
    IN IF r.err # "" THEN r
       ELSE Ok(<< Label(start_label) >> \o r.instrs
               \o << Jump(start_label), Label(end_label) >>, r.ctr)

\* Expr::Break(e)
compile_break(e, ctxt, ctr) ==
    IF ctxt.break_label = ""
    THEN Panic("Error: break without surrounding loop", ctr)
    ELSE Then(compile_expr(e, ctxt, ctr), << Jump(ctxt.break_label) >>)

\* The argument loop of Expr::FunCall: args.iter().rev().enumerate(), from
\* position index (0-based) of the reversed list on.
\* The arguments are taken first to last.
ArgForward(args, index) == args[index + 1]

\* args.iter().rev().enumerate(): the argument at position index, counted
\* from the last one.
ArgReversed(args, index) == args[Len(args) - index]

compile_args(args, index, alignment_offset, ctxt, ctr) ==
    IF index >= Len(args) THEN Ok(<<>>, ctr)
    ELSE LET arg == ArgReversed(args, index)
             arg_si == ctxt.si + 1 + index + (IF alignment_offset > 0 THEN 1 ELSE 0)
             arg_offset == arg_si * WORD_SIZE
             r == Then(compile_expr(arg, [ctxt EXCEPT !.si = arg_si], ctr),
                       << Mov(RegOff("RSP", arg_offset), RAX) >>)
         IN Join(r, compile_args(args, index + 1, alignment_offset, ctxt, r.ctr))

\* Only too few arguments are refused.
WrongArgCountTooFew(expected_num, nargs) == nargs < expected_num

\* expected_num != args.len()
WrongArgCount(expected_num, nargs) == expected_num # nargs

\* The slot below the one RDI was saved in.
RdiRestoreOffsetBelow(nargs) == -((nargs - 1) * WORD_SIZE)

\* Where RDI is reloaded from after the call, RSP being still lowered.
RdiRestoreOffset(nargs) == -(nargs * WORD_SIZE)

\* RSP is lowered past the arguments only.
CallRspOffsetArgsOnly(si, nargs, alignment_offset) == (nargs * WORD_SIZE) + alignment_offset

\* How far RSP is lowered for the call: past every slot in use.
CallRspOffset(si, nargs, alignment_offset) == ((si + nargs) * WORD_SIZE) + alignment_offset

\* Expr::FunCall(funname, args)
compile_funcall(funname, args, ctxt, ctr) ==
    IF funname \notin DOMAIN ctxt.function_env
    THEN Panic("Invalid: undefined function " \o funname, ctr)
    ELSE IF WrongArgCount(Len(ctxt.function_env[funname]), Len(args))
    THEN Panic("Invalid: function " \o funname \o " called with "
               \o ToString(Len(args)) \o " args, expected "
               \o ToString(Len(ctxt.function_env[funname])), ctr)
    ELSE
      LET alignment_offset == CallAlignmentOffset(ctxt.si, Len(args))
          rsp_offset == CallRspOffset(ctxt.si, Len(args), alignment_offset)
          ra == compile_args(args, 0, alignment_offset, ctxt, ctr)
      IN IF ra.err # "" THEN ra
         ELSE Ok(<< Mov(RegOff("RSP", (ctxt.si * WORD_SIZE) + alignment_offset), RDI) >>
                 \o ra.instrs
                 \o << Sub(RSP, Imm(rsp_offset)),
                       Call(funname),
                       Mov(RDI, RegOff("RSP", RdiRestoreOffset(Len(args)))),
                       Add(RSP, Imm(rsp_offset)) >>,
                 ra.ctr)

\* The element loop of Expr::Tuple, from element i on
compile_tuple_args(args, i, ctxt, ctr) ==
    IF i > Len(args) THEN Ok(<<>>, ctr)
    ELSE LET r == Then(compile_expr(args[i], [ctxt EXCEPT !.si = ctxt.si + 1], ctr),
                       << Mov(RegOff("R15", 0), RAX), Add(R15, Imm(WORD_SIZE)) >>)
         IN Join(r, compile_tuple_args(args, i + 1, ctxt, r.ctr))

\* Expr::Tuple(args)
compile_tuple(args, ctxt, ctr) ==
    LET tup_addr_offset == ctxt.si * WORD_SIZE
        ra == compile_tuple_args(args, 1, ctxt, ctr)
    IN IF ra.err # "" THEN ra
       ELSE Ok(<< Mov(RegOff("RSP", tup_addr_offset), R15),
                  Mov(R12, Imm(TupleHeader(Len(args)))),
                  Mov(RegOff("R15", 0), R12),
                  Add(R15, Imm(WORD_SIZE)) >>
               \o ra.instrs
               \o << Mov(RAX, RegOff("RSP", tup_addr_offset)),
                     Add(RAX, Imm(TupleTag)) >>,
               ra.ctr)

\* Only the comparison of the index with the size.
IndexBoundsCheckUpperOnly ==
    << Cmp(RAX, R12), JumpGreaterEqual(INDEX_OUT_OF_BOUNDS_LABEL) >>

\* The index in RAX against the size in R12, and against 0.
IndexBoundsCheck ==
    << Cmp(RAX, R12),
       JumpGreaterEqual(INDEX_OUT_OF_BOUNDS_LABEL),
       Cmp(RAX, Imm(0)),
       JumpLess(INDEX_OUT_OF_BOUNDS_LABEL) >>

\* The element after the header forgotten.
ElementAddressNoHeader ==
    << Sar(RAX, Imm(1)), Mul(RAX, Imm(WORD_SIZE)), Add(RBX, RAX) >>

\* The address of the element of index RAX of the vector at RBX, in RBX.
ElementAddress ==
    << Sar(RAX, Imm(1)), Add(RAX, Imm(1)), Mul(RAX, Imm(WORD_SIZE)), Add(RBX, RAX) >>

\* Expr::Index(addr, offset)
compile_index(addr, offset, ctxt, ctr) ==
    LET addr_offset == ctxt.si * WORD_SIZE
        r1 == Then(compile_expr(addr, ctxt, ctr),
                   is_heap_address_with_error(ctxt)
                   \o << Mov(RegOff("RSP", addr_offset), RAX) >>)
        r2 == Then(compile_expr(offset, [ctxt EXCEPT !.si = ctxt.si + 1], r1.ctr),
                   is_number(ctxt)
                   \o << JumpNotEqual(NOT_INDEX_OFFSET_LABEL),
                         Mov(RBX, RegOff("RSP", addr_offset)),
                         Sub(RBX, Imm(1)),
                         Mov(R12, RegOff("RBX", 0)) >>
                   \o IndexBoundsCheck
                   \o ElementAddress
                   \o << Mov(RAX, RegOff("RBX", 0)) >>)
    IN Join(r1, r2)

\* vec-set! of syntax.rs, which compiler.rs has no arm for: the receiver is
\* checked and spilled as for Expr::Index, the index is checked against the
\* bounds and spilled, the value is compiled, and the value is written into
\* the element slot; the result is the tagged pointer.
compile_vec_set(e1, e2, e3, ctxt, ctr) ==
    LET addr_offset == ctxt.si * WORD_SIZE
        index_offset == (ctxt.si + 1) * WORD_SIZE
        r1 == Then(compile_expr(e1, ctxt, ctr),
                   is_heap_address_with_error(ctxt)
                   \o << Mov(RegOff("RSP", addr_offset), RAX) >>)
        r2 == Then(compile_expr(e2, [ctxt EXCEPT !.si = ctxt.si + 1], r1.ctr),
                   is_number(ctxt)
                   \o << JumpNotEqual(NOT_INDEX_OFFSET_LABEL),
                         Mov(RBX, RegOff("RSP", addr_offset)),
                         Sub(RBX, Imm(1)),
                         Mov(R12, RegOff("RBX", 0)) >>
                   \o IndexBoundsCheck
                   \o << Mov(RegOff("RSP", index_offset), RAX) >>)
        r3 == Then(compile_expr(e3, [ctxt EXCEPT !.si = ctxt.si + 2], r2.ctr),
                   << Mov(R12, RAX),
                      Mov(RAX, RegOff("RSP", index_offset)),
                      Mov(RBX, RegOff("RSP", addr_offset)),
                      Sub(RBX, Imm(1)) >>
                   \o ElementAddress
                   \o << Mov(RegOff("RBX", 0), R12),
                         Mov(RAX, RegOff("RSP", addr_offset)) >>)
    IN IF r1.err # "" THEN r1 ELSE Join(Join(r1, r2), r3)

\* Recursively compiles an expression into a list of instructions.
compile_expr(expr, ctxt, ctr) ==
    CASE expr.t = "Number" ->
           IF int_overflow(expr.n)
           THEN Panic("Invalid: number must be in the range of a 63-bit signed integer", ctr)
           ELSE Ok(<< Mov(RAX, Imm(Shl(expr.n, 1))) >>, ctr)
      [] expr.t = "Boolean" ->
           Ok(<< Mov(RAX, Imm(IF expr.b THEN TRUE_VAL ELSE FALSE_VAL)) >>, ctr)
      [] expr.t = "Nil" -> Ok(<< Mov(RAX, Imm(NIL_VAL)) >>, ctr)
      [] expr.t = "Id" ->
           IF expr.s = "input"
           THEN IF ~ctxt.compiling_main
                THEN Panic("Invalid: input can only be used in the main expression", ctr)
                ELSE Ok(<< Mov(RAX, RDI) >>, ctr)
           ELSE IF expr.s \notin DOMAIN ctxt.env
                THEN Panic("Unbound variable identifier " \o expr.s, ctr)
                ELSE Ok(<< Mov(RAX, RegOff("RSP", ctxt.env[expr.s])) >>, ctr)
      [] expr.t = "UnOp" ->
           IF expr.op \in {"Add1", "Sub1"}
           THEN compile_add1_sub1(expr.op, expr.e, ctxt, ctr)
           ELSE IF expr.op \in {"IsNum", "IsBool"}
           THEN compile_is(expr.op, expr.e, ctxt, ctr)
           ELSE compile_print(expr.e, ctxt, ctr)
      [] expr.t = "BinOp" ->
           IF expr.op \in {"Plus", "Minus", "Times"}
           THEN compile_arith(expr.op, expr.e1, expr.e2, ctxt, ctr)
           ELSE compile_logical(expr.op, expr.e1, expr.e2, ctxt, ctr)
      [] expr.t = "Let" -> compile_let(expr.bindings, expr.body, ctxt, ctr)
      [] expr.t = "If" -> compile_if(expr.cond, expr.then_ex, expr.else_ex, ctxt, ctr)
      [] expr.t = "Block" -> compile_block(expr.exprs, 1, ctxt, ctr)
      [] expr.t = "Set" -> compile_set(expr.name, expr.e, ctxt, ctr)
      [] expr.t = "Loop" -> compile_loop(expr.e, ctxt, ctr)
      [] expr.t = "Break" -> compile_break(expr.e, ctxt, ctr)
      [] expr.t = "FunCall" -> compile_funcall(expr.funname, expr.args, ctxt, ctr)
      [] expr.t = "Tuple" -> compile_tuple(expr.args, ctxt, ctr)
      [] expr.t = "Index" -> compile_index(expr.addr, expr.offset, ctxt, ctr)
      [] expr.t = "VecSet" -> compile_vec_set(expr.e1, expr.e2, expr.e3, ctxt, ctr)

\* Get the instructions of the error handler of the given error code.
get_error_instrs(errcode) ==
    << Label(CASE errcode = ERR_NUM_OVERFLOW -> NUM_OVERFLOW_LABEL
               [] errcode = ERR_INVALID_TYPE -> INVALID_TYPE_LABEL
               [] errcode = ERR_INDEX_OUT_OF_BOUNDS -> INDEX_OUT_OF_BOUNDS_LABEL
               [] errcode = ERR_NOT_HEAP_ADDRESS -> NOT_HEAP_ADDRESS_LABEL
               [] errcode = ERR_NOT_INDEX_OFFSET -> NOT_INDEX_OFFSET_LABEL),
       Mov(RDI, Imm(errcode)),
       Push(RSP),
       Call("snek_error") >>

compile_error_instrs ==
    get_error_instrs(ERR_NUM_OVERFLOW)
    \o get_error_instrs(ERR_INVALID_TYPE)
    \o get_error_instrs(ERR_INDEX_OUT_OF_BOUNDS)
    \o get_error_instrs(ERR_NOT_HEAP_ADDRESS)
    \o get_error_instrs(ERR_NOT_INDEX_OFFSET)

RECURSIVE first_pass(_, _, _)
RECURSIVE param_env(_, _, _)

\* Only neighbouring parameters compared.
HasDuplicateAdjacent(params) ==
    \E i \in 1..(Len(params) - 1) : params[i] = params[i + 1]

\* Some parameter is in seen_params when the loop comes to it.
HasDuplicate(params) ==
    \E i \in 1..Len(params) : \E j \in 1..Len(params) : i < j /\ params[i] = params[j]

\* The first parameter the loop over params finds in seen_params.
DuplicateParam(params) ==
    params[CHOOSE j \in 1..Len(params) :
             /\ \E i \in 1..(j - 1) : params[i] = params[j]
             /\ \A k \in 1..(j - 1) : \A i \in 1..(k - 1) : params[i] # params[k]]

\* The first pass of compile_program, from definition i on: the function
\* environment, or the panic.
first_pass(defs, i, fun_env) ==
    IF i > Len(defs) THEN [fun_env |-> fun_env, err |-> ""]
    ELSE IF defs[i].name \in DOMAIN fun_env
    THEN [fun_env |-> fun_env, err |-> "Function " \o defs[i].name \o " already defined"]
    ELSE IF HasDuplicate(defs[i].params)
    THEN [fun_env |-> fun_env, err |-> "Duplicate parameter " \o DuplicateParam(defs[i].params)]
    ELSE first_pass(defs, i + 1, EnvUpdate(fun_env, defs[i].name, defs[i].params))

\* The offset that skips the return address only.
ParamOffsetNoSavedRegister(index) == -((index + 1) * WORD_SIZE)

\* The offset of parameter index (0-based): above the return address and the
\* pushed RBX.
ParamOffset(index) == -((index + 1 + 1) * WORD_SIZE)

param_env(params, i, env) ==
    IF i > Len(params) THEN env
    ELSE param_env(params, i + 1, EnvUpdate(env, params[i], ParamOffset(i - 1)))

\* The context compile_program starts from.
BaseContext(fun_env) ==
    [si |-> 2, env |-> EmptyEnv, break_label |-> "",
     function_env |-> fun_env, compiling_main |-> FALSE]

\* The saved register left on the stack.
FunctionInstrsNoPop(name, body_instrs) ==
    << Label(name), Push(RBX) >> \o body_instrs \o << Ret >>

\* label, push rbx, body, pop rbx, ret
FunctionInstrs(name, body_instrs) ==
    << Label(name), Push(RBX) >> \o body_instrs \o << Pop(RBX), Ret >>

\* label, the three moves of the heap registers, body, ret
MainInstrs(start_label, body_instrs) ==
    << Label(start_label), Mov(R15, RSI), Mov(R13, RSI), Mov(R14, RDX) >>
    \o body_instrs \o << Ret >>

\* The code of one function, from what compiling its body gave.
compile_def(def, rb) ==
    IF rb.err # "" THEN rb ELSE Ok(FunctionInstrs(def.name, rb.instrs), rb.ctr)

\* The context a function body is compiled in.
FunctionContext(def, ctxt) ==
    [ctxt EXCEPT !.env = param_env(def.params, 1, ctxt.env), !.si = ctxt.si + 1]

RECURSIVE compile_defs_from(_, _, _, _)

\* The second pass over the definitions, from definition i on; r is the code
\* of definition i - 1.
compile_defs_from(defs, i, ctxt, r) ==
    IF r.err # "" THEN r
    ELSE IF i > Len(defs) THEN r
    ELSE compile_defs_from(defs, i + 1, ctxt,
             Join(r, compile_def(defs[i],
                         compile_expr(defs[i].body, FunctionContext(defs[i], ctxt), r.ctr))))

compile_defs(defs, ctxt, ctr) == compile_defs_from(defs, 1, ctxt, Ok(<<>>, ctr))

\* No code: compile_program panicked with err.
NoProgram(ctr, err) ==
    [error_instrs |-> <<>>, fun_instrs |-> <<>>, main_instrs |-> <<>>,
     ctr |-> ctr, err |-> err]

\* The CompiledProgram, from the code of the functions and of the main
\* expression.
CompiledProgram(rf, rm, start_label) ==
    IF rm.err # "" THEN NoProgram(rm.ctr, rm.err)
    ELSE [error_instrs |-> compile_error_instrs,
          fun_instrs |-> rf.instrs,
          main_instrs |-> MainInstrs(start_label, rm.instrs),
          ctr |-> rm.ctr, err |-> ""]

\* The main expression is compiled after the functions.
compile_main(prog, ctxt, rf, start_label) ==
    IF rf.err # "" THEN NoProgram(rf.ctr, rf.err)
    ELSE CompiledProgram(rf,
             compile_expr(prog.main, [ctxt EXCEPT !.compiling_main = TRUE], rf.ctr),
             start_label)

\* The second pass and the main expression, after the first pass gave fp.
compile_passes(prog, fp, start_label, ctr) ==
    IF fp.err # "" THEN NoProgram(ctr, fp.err)
    ELSE compile_main(prog, BaseContext(fp.fun_env),
                      compile_defs(prog.defs, BaseContext(fp.fun_env), ctr),
                      start_label)

\* compile_program, with LABEL_CTR at ctr when it is called.
compile_program(prog, start_label, ctr) ==
    compile_passes(prog, first_pass(prog.defs, 1, EmptyEnv), start_label, ctr)

\* The assembly file main writes: error code, function code, main code.
AsmProgram(cp) == cp.error_instrs \o cp.fun_instrs \o cp.main_instrs

\* ------------------------------------------------------------------------
\* State
\* ------------------------------------------------------------------------

VARIABLES
    sexpr,      \* the S-expression handed to parse_program
    prog,       \* the program handed to compile_program
    argv,       \* env::args() of the run: the program name and its arguments
    input,      \* the tagged input value parse_input produced
    LABEL_CTR,  \* static mut LABEL_CTR
    code,       \* the assembly of the compiled program
    status,     \* "compile", "compile_error", "running", "str", "idle",
                \* "returned", "done", "exited", "segv"
    pc,         \* index into code of the next instruction
    regs,       \* the registers
    flags,      \* ZF, SF, OF
    mem,        \* the heap arena and the stack, by byte address
    frames,     \* per active call: the registers at its entry
    out,        \* the text written to standard output
    exitcode,   \* the exit code of the process
    errmsg,     \* the panic message or the line written to standard error
    rt,         \* the activation of snek_print / snek_str
    allocated   \* history: the addresses a vector header was written to

vars == << sexpr, prog, argv, input, LABEL_CTR, code, status, pc, regs, flags, mem, frames,
           out, exitcode, errmsg, rt, allocated >>

\* ------------------------------------------------------------------------
\* Memory layout of a run
\* ------------------------------------------------------------------------

\* Words of the heap arena (HEAP_CAPACITY) and of the stack below the entry.
HeapWords == 12
StackWords == 40

\* heap_start, and RSP on entry to our_code_starts_here (8 modulo 16: the
\* runtime's call pushed the return address on an aligned stack).
HeapStart == 16
StackTop == 504

HeapEnd == HeapStart + WORD_SIZE * HeapWords
HeapAddrs == { HeapStart + WORD_SIZE * i : i \in 0..(HeapWords - 1) }
StackAddrs == { StackTop - WORD_SIZE * i : i \in 0..StackWords }

\* The return address of the runtime's call of our_code_starts_here.
RET_TO_MAIN == -1

\* What a word that was never written, or that a callee was free to
\* overwrite, may hold.
JunkWords == {0, -5}

Registers == {"RAX", "RBX", "RDI", "RSI", "RDX", "RSP", "R12", "R13", "R14", "R15"}

\* The registers on entry to our_code_starts_here(input, heap_start, heap_end).
EntryRegs(inp) ==
    [r \in Registers |->
       CASE r = "RDI" -> inp
         [] r = "RSI" -> HeapStart
         [] r = "RDX" -> HeapEnd
         [] r = "RSP" -> StackTop
         [] r = "RAX" -> 0
         [] r = "RBX" -> -11
         [] r = "R12" -> -12
         [] r = "R13" -> -13
         [] r = "R14" -> -14
         [] r = "R15" -> -15]

EntryMem(fill) ==
    [a \in HeapAddrs \cup StackAddrs |-> IF a = StackTop THEN RET_TO_MAIN ELSE fill]

\* ------------------------------------------------------------------------
\* The machine: one instruction of the emitted code
\* ------------------------------------------------------------------------

\* A machine state m is [regs, mem, flags, pc].
EA(m, v) == m.regs[v.r] - v.n

ReadVal(m, v) ==
    CASE v.k = "Reg" -> m.regs[v.r]
      [] v.k = "Imm" -> v.n
      [] v.k = "RegOff" -> m.mem[EA(m, v)]

WriteVal(m, v, x) ==
    IF v.k = "Reg" THEN [m EXCEPT !.regs[v.r] = x]
    ELSE [m EXCEPT !.mem[EA(m, v)] = x]

\* An operand addresses memory the process does not own.
BadOperand(m, v) == v.k = "RegOff" /\ EA(m, v) \notin DOMAIN m.mem
Faults(m, instr) == BadOperand(m, instr.a) \/ BadOperand(m, instr.b)

FlagsOf(exact) ==
    [zf |-> Wrap(exact) = 0, sf |-> Wrap(exact) < 0, of |-> ~InWord(exact)]

LabelIndex(c, l) ==
    CHOOSE i \in 1..Len(c) :
        /\ c[i].op = "Label" /\ c[i].l = l
        /\ \A j \in 1..(i - 1) : ~(c[j].op = "Label" /\ c[j].l = l)

HasLabel(c, l) == \E i \in 1..Len(c) : c[i].op = "Label" /\ c[i].l = l

CondHolds(op, f) ==
    CASE op \in {"CMove", "JumpEqual"} -> f.zf
      [] op \in {"JumpNotEqual", "JumpNotZero"} -> ~f.zf
      [] op = "CMovg" -> ~f.zf /\ (f.sf = f.of)
      [] op \in {"CMovge", "JumpGreaterEqual"} -> f.sf = f.of
      [] op \in {"CMovl", "JumpLess"} -> f.sf # f.of
      [] op = "CMovle" -> f.zf \/ (f.sf # f.of)
      [] op = "JumpOverflow" -> f.of
      [] op = "Jump" -> TRUE

Next1(m) == [m EXCEPT !.pc = m.pc + 1]

\* The state after instr, which is none of call, ret, push, pop.
StepInstr(c, m, instr) ==
    LET x == ReadVal(m, instr.a)
        y == ReadVal(m, instr.b)
        arith(exact) == [WriteVal(Next1(m), instr.a, Wrap(exact))
                           EXCEPT !.flags = FlagsOf(exact)]
        logic(res) == [WriteVal(Next1(m), instr.a, res)
                         EXCEPT !.flags = [zf |-> res = 0, sf |-> res < 0, of |-> FALSE]]
    IN CASE instr.op = "Mov" -> WriteVal(Next1(m), instr.a, y)
         [] instr.op = "Add" -> arith(x + y)
         [] instr.op = "Sub" -> arith(x - y)
         [] instr.op = "Mul" -> arith(x * y)
         [] instr.op = "Cmp" -> [Next1(m) EXCEPT !.flags = FlagsOf(x - y)]
         [] instr.op = "Test" ->
              [Next1(m) EXCEPT !.flags = [zf |-> BitAnd(x, y) = 0,
                                          sf |-> BitAnd(x, y) < 0, of |-> FALSE]]
         [] instr.op = "And" -> logic(BitAnd(x, y))
         [] instr.op = "Or"  -> logic(BitOr(x, y))
         [] instr.op = "Xor" -> logic(BitXor(x, y))
         [] instr.op = "Not" -> WriteVal(Next1(m), instr.a, BitNot(x))
         [] instr.op = "Sar" -> logic(Sar1(x))
         [] instr.op \in {"CMove", "CMovg", "CMovge", "CMovl", "CMovle"} ->
              IF CondHolds(instr.op, m.flags)
              THEN WriteVal(Next1(m), instr.a, y) ELSE Next1(m)
         [] instr.op = "Label" -> Next1(m)
         [] instr.op \in {"Jump", "JumpEqual", "JumpNotEqual", "JumpNotZero",
                          "JumpGreaterEqual", "JumpLess", "JumpOverflow"} ->
              IF CondHolds(instr.op, m.flags)
              THEN [m EXCEPT !.pc = LabelIndex(c, instr.l)] ELSE Next1(m)

PlainOps == {"Mov", "Add", "Sub", "Mul", "Cmp", "Test", "And", "Or", "Xor", "Not", "Sar",
             "CMove", "CMovg", "CMovge", "CMovl", "CMovle", "Label",
             "Jump", "JumpEqual", "JumpNotEqual", "JumpNotZero",
             "JumpGreaterEqual", "JumpLess", "JumpOverflow"}

Machine == [regs |-> regs, mem |-> mem, flags |-> flags, pc |-> pc]

SetMachine(m) ==
    /\ regs' = m.regs
    /\ mem' = m.mem
    /\ flags' = m.flags
    /\ pc' = m.pc

Running == status = "running" /\ pc \in 1..Len(code)
Cur == code[pc]

Crash ==
    /\ status' = "segv"
    /\ UNCHANGED << sexpr, prog, argv, input, LABEL_CTR, code, pc, regs, flags, mem, frames,
                    out, exitcode, errmsg, rt, allocated >>

\* ------------------------------------------------------------------------
\* The runtime (src/runtime/start.rs)
\* ------------------------------------------------------------------------

\* Text is a sequence of characters.
Digit(d) == << "0", "1", "2", "3", "4", "5", "6", "7", "8", "9" >>[d + 1]

RECURSIVE NatToString(_)
NatToString(n) ==
    IF n < 10 THEN << Digit(n) >> ELSE NatToString(n \div 10) \o << Digit(n % 10) >>

\* i64::to_string
ToDecimal(n) == IF n < 0 THEN << "-" >> \o NatToString(-n) ELSE NatToString(n)

STR_TRUE == << "t", "r", "u", "e" >>
STR_FALSE == << "f", "a", "l", "s", "e" >>
STR_NIL == << "n", "i", "l" >>
STR_SEEN == << "[", ".", ".", ".", "]" >>
STR_SEP == << ",", " " >>
NEWLINE == << "\n" >>

IsDigitChar(c) == \E d \in 0..9 : Digit(d) = c
DigitValue(c) == CHOOSE d \in 0..9 : Digit(d) = c

\* The number a sequence of decimal digits denotes.
RECURSIVE DigitsValue(_)
DigitsValue(ds) ==
    IF ds = <<>> THEN 0
    ELSE 10 * DigitsValue(SubSeq(ds, 1, Len(ds) - 1)) + DigitValue(ds[Len(ds)])

\* input.parse::<i64>(): an optional sign and at least one decimal digit; an
\* Err for any other text and for a number outside the range of i64.
parse_i64(s) ==
    LET signed == s # <<>> /\ s[1] \in {"+", "-"}
        digits == IF signed THEN Tail(s) ELSE s
        num == IF signed /\ s[1] = "-" THEN -DigitsValue(digits) ELSE DigitsValue(digits)
    IN IF digits = <<>> \/ \E i \in 1..Len(digits) : ~IsDigitChar(digits[i])
       THEN [ok |-> FALSE, num |-> 0]
       ELSE IF ~InWord(num) THEN [ok |-> FALSE, num |-> 0]
       ELSE [ok |-> TRUE, num |-> num]

\* The number handed over as it is.
TagNumberRaw(num) == num

\* num << 1
TagNumber(num) == Shl(num, 1)

\* Parse "input" values into their internal representations; panic names the
\* panic message when parse_input panics.
parse_input(s) ==
    IF s = STR_FALSE THEN [panic |-> "", val |-> 3]
    ELSE IF s = STR_TRUE THEN [panic |-> "", val |-> 7]
    ELSE IF ~parse_i64(s).ok
    THEN [panic |-> "Invalid: error occurred parsing input", val |-> 0]
    ELSE IF parse_i64(s).num < I63_MIN \/ parse_i64(s).num > I63_MAX
    THEN [panic |-> "Invalid: input overflows a 63-bit signed integer", val |-> 0]
    ELSE [panic |-> "", val |-> TagNumber(parse_i64(s).num)]

\* The name the program was started under, args[0].
PROGRAM_NAME == << "r", "u", "n" >>

\* The default value of the "input" operator is false.
InputArg(args) == IF Len(args) = 2 THEN args[2] ELSE STR_FALSE

\* The message snek_error prints for an error code.
snek_error_message(errcode) ==
    CASE errcode = 1 -> "an error occurred: numeric overflow"
      [] errcode = 2 -> "an error occurred: invalid argument (incompatible types)"
      [] errcode = 3 -> "an error occurred: index out of bounds"
      [] errcode = 4 -> "an error occurred: invalid vector address"
      [] errcode = 5 -> "an error occurred: invalid vector offset"
      [] errcode = 6 -> "an error occurred: vector address out of bounds"
      [] OTHER -> "Unknown error code: " \o ToString(errcode)

\* No activation of snek_print.
IdleRt ==
    [mode |-> "idle", arg |-> 0, ret |-> <<>>, stack |-> <<>>, seen |-> {},
     from |-> "", val |-> 0, log |-> <<>>, calls |-> 0]

\* snek_print(val): snek_str(val, &mut HashSet::new()).  log lists the
\* vectors snek_str has walked into during this call.
snek_print(val, from) ==
    [mode |-> "call", arg |-> val, ret |-> <<>>, stack |-> <<>>, seen |-> {},
     from |-> from, val |-> val, log |-> <<>>, calls |-> rt.calls]

\* addr.read() as usize
AsUsize(w) == w % Modulus

\* What snek_str answers for a value that is not a vector.
snek_str_scalar(val) ==
    CASE val = 7 -> STR_TRUE
      [] val = 3 -> STR_FALSE
      [] val % 2 = 0 -> ToDecimal(Sar1(val))
      [] val = 1 -> STR_NIL

\* The vector was walked: snek_str removes it from seen (true) or keeps it.
StrKeeps == FALSE
StrForgets == TRUE

\* snek_str is entered with rt.arg.
StrCall ==
    /\ status = "str" /\ rt.mode = "call"
    /\ LET val == rt.arg
           addr == val - 1
       IN IF val = 7 \/ val = 3 \/ val % 2 = 0 \/ val = 1
          THEN /\ rt' = [rt EXCEPT !.mode = "ret", !.ret = snek_str_scalar(val)]
               /\ status' = status
          ELSE IF val \in rt.seen
          THEN /\ rt' = [rt EXCEPT !.mode = "ret", !.ret = STR_SEEN]
               /\ status' = status
          ELSE IF addr \notin DOMAIN mem
          THEN /\ rt' = [rt EXCEPT !.seen = rt.seen \cup {val}]
               /\ status' = "segv"
          ELSE /\ rt' = [rt EXCEPT !.mode = "loop",
                                   !.seen = rt.seen \cup {val},
                                   !.log = Append(rt.log, val),
                                   !.stack = Append(rt.stack,
                                       [val |-> val, addr |-> addr,
                                        size |-> AsUsize(mem[addr]), i |-> 1,
                                        result_str |-> << "[" >>])]
               /\ status' = status
    /\ UNCHANGED << sexpr, prog, argv, input, LABEL_CTR, code, pc, regs, flags, mem, frames,
                    out, exitcode, errmsg, allocated >>

\* The loop of snek_str over the elements of the vector on top of the stack.
StrLoop ==
    /\ status = "str" /\ rt.mode = "loop"
    /\ LET d == Len(rt.stack)
           f == rt.stack[d]
           ea == f.addr + WORD_SIZE * f.i
       IN IF f.i < f.size + 1
          THEN IF ea \notin DOMAIN mem
               THEN /\ status' = "segv"
                    /\ rt' = rt
               ELSE /\ rt' = [rt EXCEPT !.mode = "call", !.arg = mem[ea]]
                    /\ status' = status
          ELSE /\ rt' = [rt EXCEPT !.mode = "ret",
                                   !.arg = f.val,
                                   !.seen = IF StrForgets THEN rt.seen \ {f.val} ELSE rt.seen,
                                   !.ret = f.result_str \o << "]" >>,
                                   !.stack = SubSeq(rt.stack, 1, d - 1)]
               /\ status' = status
    /\ UNCHANGED << sexpr, prog, argv, input, LABEL_CTR, code, pc, regs, flags, mem, frames,
                    out, exitcode, errmsg, allocated >>

\* A recursive snek_str returns into the loop of its caller.
StrRet ==
    /\ status = "str" /\ rt.mode = "ret" /\ rt.stack # <<>>
    /\ LET d == Len(rt.stack)
           f == rt.stack[d]
           str == f.result_str \o rt.ret \o (IF f.i < f.size THEN STR_SEP ELSE <<>>)
       IN rt' = [rt EXCEPT !.mode = "loop",
                           !.stack[d] = [f EXCEPT !.result_str = str, !.i = f.i + 1]]
    /\ UNCHANGED << sexpr, prog, argv, input, LABEL_CTR, code, status, pc, regs, flags, mem, frames,
                    out, exitcode, errmsg, allocated >>

\* The outermost snek_str has returned to snek_print.
StrDone == status = "str" /\ rt.mode = "ret" /\ rt.stack = <<>>

\* ------------------------------------------------------------------------
\* Running the compiled program
\* ------------------------------------------------------------------------

\* The process state after the compiler returned cp.
Compiled(cp) ==
    /\ LABEL_CTR' = cp.ctr
    /\ IF cp.err # ""
       THEN /\ status' = "compile_error"
            /\ errmsg' = cp.err
            /\ UNCHANGED << code, pc >>
       ELSE /\ status' = "running"
            /\ code' = AsmProgram(cp)
            /\ pc' = LabelIndex(AsmProgram(cp), "our_code_starts_here")
            /\ UNCHANGED errmsg

\* compile_program, then the assembled code is entered at our_code_starts_here.
Compile ==
    /\ status = "compile"
    /\ Compiled(compile_program(prog, "our_code_starts_here", LABEL_CTR))
    /\ UNCHANGED << sexpr, prog, argv, input, regs, flags, mem, frames, out, exitcode, rt, allocated >>

\* The store of the size word of Expr::Tuple.
IsHeaderWrite(instr) == instr = Mov(RegOff("R15", 0), R12)

\* One instruction other than call, ret, push, pop.
ExecInstr ==
    /\ Running /\ Cur.op \in PlainOps
    /\ IF Faults(Machine, Cur)
       THEN Crash
       ELSE /\ SetMachine(StepInstr(code, Machine, Cur))
            /\ allocated' = IF IsHeaderWrite(Cur) THEN allocated \cup {regs["R15"]}
                                                  ELSE allocated
            /\ UNCHANGED << sexpr, prog, argv, input, LABEL_CTR, code, status, frames, out,
                            exitcode, errmsg, rt >>

\* push: RSP goes down a word, the operand is stored there.
ExecPush ==
    /\ Running /\ Cur.op = "Push"
    /\ LET a == regs["RSP"] - WORD_SIZE
       IN IF a \notin DOMAIN mem \/ Faults(Machine, Cur)
          THEN Crash
          ELSE /\ mem' = [mem EXCEPT ![a] = ReadVal(Machine, Cur.a)]
               /\ regs' = [regs EXCEPT !["RSP"] = a]
               /\ pc' = pc + 1
               /\ UNCHANGED << sexpr, prog, argv, input, LABEL_CTR, code, status, flags, frames,
                               out, exitcode, errmsg, rt, allocated >>

\* pop: the word at RSP is loaded, RSP goes up a word.
ExecPop ==
    /\ Running /\ Cur.op = "Pop"
    /\ LET a == regs["RSP"]
       IN IF a \notin DOMAIN mem
          THEN Crash
          ELSE /\ regs' = [regs EXCEPT ![Cur.a.r] = mem[a], !["RSP"] = a + WORD_SIZE]
               /\ pc' = pc + 1
               /\ UNCHANGED << sexpr, prog, argv, input, LABEL_CTR, code, status, flags, mem,
                               frames, out, exitcode, errmsg, rt, allocated >>

RuntimeLabels == {"snek_print", "snek_error"}

\* call of a compiled function: the return address is pushed.
ExecCall ==
    /\ Running /\ Cur.op = "Call" /\ Cur.l \notin RuntimeLabels
    /\ LET a == regs["RSP"] - WORD_SIZE
       IN IF a \notin DOMAIN mem
          THEN Crash
          ELSE /\ mem' = [mem EXCEPT ![a] = pc + 1]
               /\ regs' = [regs EXCEPT !["RSP"] = a]
               /\ pc' = LabelIndex(code, Cur.l)
               /\ frames' = Append(frames, [fn |-> Cur.l,
                                            regs |-> [regs EXCEPT !["RSP"] = a],
                                            ret |-> pc + 1])
               /\ UNCHANGED << sexpr, prog, argv, input, LABEL_CTR, code, status, flags,
                               out, exitcode, errmsg, rt, allocated >>

\* ret: the word at RSP is popped and jumped to.
ExecRet ==
    /\ Running /\ Cur.op = "Ret"
    /\ LET a == regs["RSP"]
       IN IF a \notin DOMAIN mem
          THEN Crash
          ELSE IF mem[a] = RET_TO_MAIN
          THEN /\ status' = "returned"
               /\ regs' = [regs EXCEPT !["RSP"] = a + WORD_SIZE]
               /\ frames' = SubSeq(frames, 1, Len(frames) - 1)
               /\ UNCHANGED << sexpr, prog, argv, input, LABEL_CTR, code, pc, flags, mem,
                               out, exitcode, errmsg, rt, allocated >>
          ELSE IF mem[a] \in 1..Len(code)
          THEN /\ pc' = mem[a]
               /\ regs' = [regs EXCEPT !["RSP"] = a + WORD_SIZE]
               /\ frames' = SubSeq(frames, 1, Len(frames) - 1)
               /\ UNCHANGED << sexpr, prog, argv, input, LABEL_CTR, code, status, flags, mem,
                               out, exitcode, errmsg, rt, allocated >>
          ELSE Crash

\* call snek_print: the runtime renders RDI.
CallPrint ==
    /\ Running /\ Cur.op = "Call" /\ Cur.l = "snek_print"
    /\ status' = "str"
    /\ rt' = snek_print(regs["RDI"], "code")
    /\ UNCHANGED << sexpr, prog, argv, input, LABEL_CTR, code, pc, regs, flags, mem, frames,
                    out, exitcode, errmsg, allocated >>

\* snek_print returns to the compiled code: the line is written, RAX is the
\* value, and the callee was free to overwrite the caller-saved registers
\* and the stack below RSP.
PrintReturn ==
    /\ StrDone /\ rt.from = "code"
    /\ \E j \in JunkWords :
         /\ regs' = [regs EXCEPT !["RAX"] = rt.val, !["RDI"] = j,
                                 !["RSI"] = j, !["RDX"] = j]
         /\ mem' = [a \in DOMAIN mem |->
                      IF a \in StackAddrs /\ a < regs["RSP"] THEN j ELSE mem[a]]
    /\ out' = out \o rt.ret \o NEWLINE
    /\ status' = "running"
    /\ pc' = pc + 1
    /\ rt' = [IdleRt EXCEPT !.calls = rt.calls + 1]
    /\ UNCHANGED << sexpr, prog, argv, input, LABEL_CTR, code, flags, frames, exitcode, errmsg, allocated >>

\* call snek_error: the message is written and the process exits with RDI.
CallError ==
    /\ Running /\ Cur.op = "Call" /\ Cur.l = "snek_error"
    /\ status' = "exited"
    /\ exitcode' = regs["RDI"]
    /\ errmsg' = snek_error_message(regs["RDI"])
    /\ UNCHANGED << sexpr, prog, argv, input, LABEL_CTR, code, pc, regs, flags, mem, frames,
                    out, rt, allocated >>

\* main of the runtime prints what our_code_starts_here returned.
MainPrint ==
    /\ status = "returned"
    /\ status' = "str"
    /\ rt' = snek_print(regs["RAX"], "main")
    /\ UNCHANGED << sexpr, prog, argv, input, LABEL_CTR, code, pc, regs, flags, mem, frames,
                    out, exitcode, errmsg, allocated >>

\* main of the runtime returns: the process exits with 0.
MainExit ==
    /\ StrDone /\ rt.from = "main"
    /\ out' = out \o rt.ret \o NEWLINE
    /\ status' = "done"
    /\ exitcode' = 0
    /\ rt' = [IdleRt EXCEPT !.calls = rt.calls + 1]
    /\ UNCHANGED << sexpr, prog, argv, input, LABEL_CTR, code, pc, regs, flags, mem, frames,
                    errmsg, allocated >>

\* ------------------------------------------------------------------------
\* The programs and inputs of the runs
\* ------------------------------------------------------------------------

\* The largest number of elements of the vectors the runs build.
MaxVecLen == 2

\* A number whose square is just outside or just inside the number range.
HalfRange == Pow2((WordBits - 2) \div 2)

NumSamples == {I63_MIN, -HalfRange, -1, 0, 1, 2, HalfRange, I63_MAX}

\* Operands that are not numbers: nil, the booleans, a vector.
NonNumbers == {ENil, EBoolean(TRUE), EBoolean(FALSE), ETuple(<< ENumber(1) >>)}

Operands == { ENumber(n) : n \in NumSamples } \cup NonNumbers

ArithOps1 == {"Add1", "Sub1"}
ArithOps2 == {"Plus", "Minus", "Times"}
InequalityOps == {"Less", "LessEqual", "Greater", "GreaterEqual"}

UnaryPrograms == { Program(<<>>, EUnOp(op, e)) : op \in ArithOps1, e \in Operands }

BinaryPrograms ==
    { Program(<<>>, EBinOp(op, e1, e2)) :
        op \in ArithOps2 \cup InequalityOps, e1 \in Operands, e2 \in Operands }

\* (fun (mk) (vec 7 8))
MkDef == Definition("mk", <<>>, ETuple(<< ENumber(7), ENumber(8) >>))

\* Element expressions: values, a nested vec, a call that builds a vec.
ScalarElems == {ENumber(5), EBoolean(TRUE), ENil}
AllocElems == {ETuple(<< ENumber(1), ENumber(2) >>), EFunCall("mk", <<>>)}
Elems == ScalarElems \cup AllocElems

ElemLists == UNION { [1..k -> Elems] : k \in 1..MaxVecLen }

\* (vec-get (vec e0 .. ek-1) i), also for the indices just outside 0..k-1
IndexPrograms ==
    { Program(<< MkDef >>, EIndex(ETuple(es), ENumber(i))) :
        es \in ElemLists, i \in (-1)..MaxVecLen }

\* (vec e0 .. ek-1), which the runtime prints
TuplePrograms == { Program(<< MkDef >>, ETuple(es)) : es \in ElemLists }

\* The most let bindings around a call, and the most arguments of a call.
MaxLets == 2
MaxArgs == 2

VarName(i) == "v" \o ToString(i)
ParamName(i) == "p" \o ToString(i)

\* (let ((v1 1) .. (vd d)) body), or body when d = 0
LetNest(d, body) ==
    IF d = 0 THEN body
    ELSE ELet([i \in 1..d |-> << VarName(i), ENumber(i) >>], body)

Params(n) == [i \in 1..n |-> ParamName(i)]
Args(n) == [i \in 1..n |-> ENumber(i)]

\* A function of n parameters that prints under d2 bindings, called under d1
\* bindings of the main expression.
CallPrograms ==
    { Program(<< Definition("f", Params(n),
                            LetNest(d2, EUnOp("Print",
                                IF n > 0 THEN EId(ParamName(1)) ELSE ENumber(0)))) >>,
              LetNest(d1, EFunCall("f", Args(n)))) :
        n \in 0..MaxArgs, d1 \in 0..MaxLets, d2 \in 0..MaxLets }

\* (print d) under d bindings of the main expression
PrintPrograms ==
    { Program(<<>>, LetNest(d, EUnOp("Print", ENumber(d)))) : d \in 0..MaxLets }

\* (fun (fact n) (if (= n 0) 1 (* n (fact (sub1 n))))) (fact 3)
FactProgram ==
    Program(<< Definition("fact", << "n" >>,
                 EIf(EBinOp("Equal", EId("n"), ENumber(0)),
                     ENumber(1),
                     EBinOp("Times", EId("n"),
                            EFunCall("fact", << EUnOp("Sub1", EId("n")) >>)))) >>,
            EFunCall("fact", << ENumber(3) >>))

\* (let ((i 0)) (loop (if (>= i 2) (break i) (set! i (add1 i)))))
LoopProgram ==
    Program(<<>>,
            ELet(<< << "i", ENumber(0) >> >>,
                 ELoop(EIf(EBinOp("GreaterEqual", EId("i"), ENumber(2)),
                           EBreak(EId("i")),
                           ESet("i", EUnOp("Add1", EId("i")))))))

\* (fun (pair a b) (vec a b)) (let ((x (pair 1 2))) (block (print x) (vec-get x 1)))
PairProgram ==
    Program(<< Definition("pair", << "a", "b" >>, ETuple(<< EId("a"), EId("b") >>)) >>,
            ELet(<< << "x", EFunCall("pair", << ENumber(1), ENumber(2) >>) >> >>,
                 EBlock(<< EUnOp("Print", EId("x")),
                           EIndex(EId("x"), ENumber(1)) >>)))

\* (fun (g n) (let ((i 0)) (loop (if (>= i n) (break (print i)) (set! i (add1 i))))))
\* (fun (h a b) (if a (g b) (+ (g 1) b)))
\* (+ (h true 1) (h false 2))
BranchProgram ==
    Program(<< Definition("g", << "n" >>,
                 ELet(<< << "i", ENumber(0) >> >>,
                      ELoop(EIf(EBinOp("GreaterEqual", EId("i"), EId("n")),
                                EBreak(EUnOp("Print", EId("i"))),
                                ESet("i", EUnOp("Add1", EId("i"))))))),
               Definition("h", << "a", "b" >>,
                 EIf(EId("a"),
                     EFunCall("g", << EId("b") >>),
                     EBinOp("Plus", EFunCall("g", << ENumber(1) >>), EId("b")))) >>,
            EBinOp("Plus", EFunCall("h", << EBoolean(TRUE), ENumber(1) >>),
                           EFunCall("h", << EBoolean(FALSE), ENumber(2) >>)))

\* The argument expressions of a call of pick: (add1 10), (add1 20), ..
PickArgs(n) == [j \in 1..n |-> EUnOp("Add1", ENumber(10 * j))]

\* (fun (pick p1 .. pn) pi) (let ((v1 1) .. (vd d)) (pick (add1 10) (add1 20) ..)):
\* a function that returns its i-th parameter, called under d bindings.
PickPrograms ==
    UNION { { Program(<< Definition("pick", Params(n), EId(ParamName(i))) >>,
                      LetNest(d, EFunCall("pick", PickArgs(n)))) :
                i \in 1..n, d \in 0..MaxLets } : n \in 1..MaxArgs }

\* (fun (first a b) a) (fun (second a b) b) (first (second 1 2) (second 3 4))
NestedCallProgram ==
    Program(<< Definition("first", << "a", "b" >>, EId("a")),
               Definition("second", << "a", "b" >>, EId("b")) >>,
            EFunCall("first", << EFunCall("second", << ENumber(1), ENumber(2) >>),
                                 EFunCall("second", << ENumber(3), ENumber(4) >>) >>))

\* (fun (even n) (if (= n 0) true (odd (sub1 n))))
\* (fun (odd n) (if (= n 0) false (even (sub1 n))))
EvenDef ==
    Definition("even", << "n" >>,
        EIf(EBinOp("Equal", EId("n"), ENumber(0)), EBoolean(TRUE),
            EFunCall("odd", << EUnOp("Sub1", EId("n")) >>)))
OddDef ==
    Definition("odd", << "n" >>,
        EIf(EBinOp("Equal", EId("n"), ENumber(0)), EBoolean(FALSE),
            EFunCall("even", << EUnOp("Sub1", EId("n")) >>)))

\* (fun (twice a b) (twice a)): a call with too few arguments in a body
TwiceDef == Definition("twice", << "a", "b" >>, EFunCall("twice", << EId("a") >>))

\* (fun (lost) (nope)): a call of an undefined function in a body
LostDef == Definition("lost", <<>>, EFunCall("nope", <<>>))

\* The definitions of the programs that call name with k arguments.
CalledDefs == { <<>>, << EvenDef, OddDef >>, << MkDef >> }
CalledNames == {"even", "odd", "mk", "nope"}

\* (name 1 .. k) for the lists of definitions and the names above
DirectCallPrograms ==
    { Program(defs, EFunCall(name, Args(k))) :
        defs \in CalledDefs, name \in CalledNames, k \in 0..MaxArgs }

\* A wrong call in the body of a function the main expression does not call.
BodyCallPrograms ==
    { Program(<< TwiceDef >>, ENumber(1)), Program(<< LostDef >>, ENumber(1)) }

\* Definitions (fun (name params) 1) for two names and these parameter lists.
TableParamLists ==
    { <<>>, << "a" >>, << "a", "b" >>, << "a", "a" >>, << "a", "b", "a" >> }
TableDefs ==
    { Definition(name, ps, ENumber(1)) : name \in {"f", "g"}, ps \in TableParamLists }

\* Programs of none, one or two of these definitions.
TablePrograms ==
    { Program(<<>>, ENumber(1)) }
    \cup { Program(<< d >>, ENumber(1)) : d \in TableDefs }
    \cup { Program(<< d1, d2 >>, ENumber(1)) : d1 \in TableDefs, d2 \in TableDefs }

\* Bindings of x and y to a number, to x, to y or to (add1 x).
ScopeBindings ==
    { << name, rhs >> : name \in { "x", "y" },
                        rhs \in { ENumber(1), EId("x"), EId("y"), EUnOp("Add1", EId("x")) } }

\* (let (b1) body) and (let (b1 b2) body) with body x or y.
ScopeLets ==
    { ELet(<< b1 >>, body) : b1 \in ScopeBindings, body \in { EId("x"), EId("y") } }
    \cup { ELet(<< b1, b2 >>, body) :
              b1 \in ScopeBindings, b2 \in ScopeBindings, body \in { EId("x"), EId("y") } }

\* The let alone, and (let ((x 5)) (+ (* l 10) x)) for each of these lets l.
ScopePrograms ==
    { Program(<<>>, l) : l \in ScopeLets }
    \cup { Program(<<>>, ELet(<< << "x", ENumber(5) >> >>,
                              EBinOp("Plus", EBinOp("Times", l, ENumber(10)), EId("x")))) :
              l \in ScopeLets }

\* (loop (break 7))
BreakOnce == Program(<<>>, ELoop(EBreak(ENumber(7))))

\* (loop (block (print (loop (break 1))) (break 2)))
BreakNested ==
    Program(<<>>, ELoop(EBlock(<< EUnOp("Print", ELoop(EBreak(ENumber(1)))),
                                  EBreak(ENumber(2)) >>)))

\* (let ((i 0)) (loop (if (= i 2) (break (+ i 10)) (set! i (add1 i)))))
BreakCounted ==
    Program(<<>>,
            ELet(<< << "i", ENumber(0) >> >>,
                 ELoop(EIf(EBinOp("Equal", EId("i"), ENumber(2)),
                           EBreak(EBinOp("Plus", EId("i"), ENumber(10))),
                           ESet("i", EUnOp("Add1", EId("i")))))))

\* (fun (f) (loop (break 4))) (loop (break (f)))
BreakInFunction ==
    Program(<< Definition("f", <<>>, ELoop(EBreak(ENumber(4)))) >>,
            ELoop(EBreak(EFunCall("f", <<>>))))

\* (fun (f) (break 1)) (loop (f))
BreakInCallee ==
    Program(<< Definition("f", <<>>, EBreak(ENumber(1))) >>, ELoop(EFunCall("f", <<>>)))

\* (block (loop (break 1)) (break 2))
BreakAfterLoop ==
    Program(<<>>, EBlock(<< ELoop(EBreak(ENumber(1))), EBreak(ENumber(2)) >>))

\* (loop 1)
EndlessLoop == Program(<<>>, ELoop(ENumber(1)))

\* (loop (loop (break 1)))
EndlessOuterLoop == Program(<<>>, ELoop(ELoop(EBreak(ENumber(1)))))

\* (let ((i 0)) (loop (set! i (add1 i))))
CountingLoop ==
    Program(<<>>, ELet(<< << "i", ENumber(0) >> >>,
                       ELoop(ESet("i", EUnOp("Add1", EId("i"))))))

\* Programs whose outermost loop executes no break.
EndlessPrograms == { EndlessLoop, EndlessOuterLoop, CountingLoop }

BreakPrograms ==
    { BreakOnce, BreakNested, BreakCounted, BreakInFunction, BreakInCallee,
      BreakAfterLoop, Program(<<>>, EBreak(ENumber(1))) }
    \cup EndlessPrograms

\* (vec 1 .. k)
CountingVec(k) == ETuple([j \in 1..k |-> ENumber(j)])

\* (let ((v (vec 1 .. k))) (vec-set! v i x)), and
\* (let ((v (vec 1 .. k))) (block (vec-set! v i x) (vec-get v j)))
VecSetPrograms ==
    UNION { { Program(<<>>, ELet(<< << "v", CountingVec(k) >> >>,
                                 EVecSet(EId("v"), ENumber(i), x))) :
                i \in (-1)..k, x \in { ENumber(9), EBoolean(TRUE) } }
            \cup
            { Program(<<>>, ELet(<< << "v", CountingVec(k) >> >>,
                                 EBlock(<< EVecSet(EId("v"), ENumber(i), x),
                                           EIndex(EId("v"), ENumber(j)) >>))) :
                i \in (-1)..k, x \in { ENumber(9), EBoolean(TRUE) }, j \in 0..(k - 1) }
          : k \in 1..MaxVecLen }

\* (fun (ifend_0) 1) (if false 1 2): a function named as the first label
\* get_new_label makes for the if of the main expression.
LabelShapedProgram ==
    Program(<< Definition("ifend_0", <<>>, ENumber(1)) >>,
            EIf(EBoolean(FALSE), ENumber(1), ENumber(2)))

\* (fun (same a b) (= a b)) (same (vec 1) 1)
SameProgram ==
    Program(<< Definition("same", << "a", "b" >>, EBinOp("Equal", EId("a"), EId("b"))) >>,
            EFunCall("same", << ETuple(<< ENumber(1) >>), ENumber(1) >>))

\* (let ((x (vec 1))) (= x x))
SamePointerProgram ==
    Program(<<>>, ELet(<< << "x", ETuple(<< ENumber(1) >>) >> >>,
                       EBinOp("Equal", EId("x"), EId("x"))))

\* (= e1 e2) for every pair of operands
EqualityPrograms ==
    { Program(<<>>, EBinOp("Equal", e1, e2)) : e1 \in Operands, e2 \in Operands }

\* Vectors of 1 .. MaxVecLen numbers.
NumberVecs == { ETuple([j \in 1..k |-> ENumber(j)]) : k \in 1..MaxVecLen }

\* (vec-get (vec 1 .. k) e) for every operand e as the index
IndexOperandPrograms ==
    { Program(<<>>, EIndex(v, e)) : v \in NumberVecs, e \in Operands }

\* (vec-get e 0) for a receiver that is no vector, (vec-get (vec 1) true)
BadIndexPrograms ==
    { Program(<<>>, EIndex(e, ENumber(0))) : e \in {ENil, EBoolean(TRUE), EBoolean(FALSE), ENumber(4)} }
    \cup { Program(<<>>, EIndex(ETuple(<< ENumber(1) >>), EBoolean(TRUE))) }

\* Programs compile_program panics on.
RejectedPrograms ==
    { Program(<<>>, EId("y")),
      Program(<<>>, EBreak(ENumber(1))),
      Program(<<>>, ELet(<< << "x", ENumber(1) >>, << "x", ENumber(2) >> >>, EId("x"))),
      Program(<<>>, EFunCall("g", <<>>)),
      Program(<< MkDef >>, EFunCall("mk", << ENumber(1) >>)),
      Program(<< MkDef, MkDef >>, ENumber(1)),
      Program(<< Definition("h", << "a", "a" >>, ENumber(1)) >>, ENumber(1)),
      Program(<< Definition("h", <<>>, EId("input")) >>, ENumber(1)),
      Program(<<>>, ENumber(I63_MAX + 1)),
      Program(<<>>, ESet("z", ENumber(1))) }

\* (fun (f p1 .. pn) (print 0))
\* (let ((v1 1) .. (vd d)) (block (f 1 .. n) (print input) input))
InputAfterCallPrograms ==
    { Program(<< Definition("f", Params(n), EUnOp("Print", ENumber(0))) >>,
              LetNest(d, EBlock(<< EFunCall("f", Args(n)),
                                   EUnOp("Print", EId("input")),
                                   EId("input") >>))) :
        n \in 0..MaxArgs, d \in 0..MaxLets }

\* (fun (down x) (block (print x) (if (= x 0) 0 (down (sub1 x)))))
\* (block (print input) (down 1) (let ((a (down 0)) (b input)) (vec b (down a) input)))
InputAfterRecursionProgram ==
    Program(<< Definition("down", << "x" >>,
                 EBlock(<< EUnOp("Print", EId("x")),
                           EIf(EBinOp("Equal", EId("x"), ENumber(0)),
                               ENumber(0),
                               EFunCall("down", << EUnOp("Sub1", EId("x")) >>)) >>)) >>,
            EBlock(<< EUnOp("Print", EId("input")),
                      EFunCall("down", << ENumber(1) >>),
                      ELet(<< << "a", EFunCall("down", << ENumber(0) >>) >>,
                              << "b", EId("input") >> >>,
                           ETuple(<< EId("b"), EFunCall("down", << EId("a") >>),
                                     EId("input") >>)) >>))

\* Programs that read input.
InputPrograms ==
    InputAfterCallPrograms \cup {InputAfterRecursionProgram} \cup
    { Program(<<>>, EUnOp("Add1", EId("input"))),
      Program(<<>>, EBlock(<< EUnOp("IsNum", EId("input")),
                              EUnOp("IsBool", EId("input")) >>)),
      Program(<<>>, EIf(EId("input"), EUnOp("Print", EId("input")), ENil)) }

\* The arguments the programs that read input are run with.
InputArgs == {STR_FALSE, STR_TRUE, ToDecimal(0), ToDecimal(I63_MAX), ToDecimal(I63_MIN)}

\* The values parse_input hands to our_code_starts_here for them.
Inputs == { parse_input(t).val : t \in InputArgs }

\* (fun (sum a b) (+ a b))
SumDef == Definition("sum", << "a", "b" >>, EBinOp("Plus", EId("a"), EId("b")))

\* (+ (* 2 3) (sum (print 4) (+ 1 (sum 5 6)))): a spilled operand and an
\* evaluated argument are live across a call and a print.
SpillAcrossCall ==
    Program(<< SumDef >>,
            EBinOp("Plus", EBinOp("Times", ENumber(2), ENumber(3)),
                   EFunCall("sum", << EUnOp("Print", ENumber(4)),
                                      EBinOp("Plus", ENumber(1),
                                             EFunCall("sum", << ENumber(5), ENumber(6) >>)) >>)))

\* (let ((x 1)) (block (set! x (sum x 2)) (index (tuple (print x) (sum x x)) 1)))
SetAcrossCall ==
    Program(<< SumDef >>,
            ELet(<< << "x", ENumber(1) >> >>,
                 EBlock(<< ESet("x", EFunCall("sum", << EId("x"), ENumber(2) >>)),
                           EIndex(ETuple(<< EUnOp("Print", EId("x")),
                                            EFunCall("sum", << EId("x"), EId("x") >>) >>),
                                  ENumber(1)) >>)))

\* The programs whose main expression is guarded below.
SlotBodies ==
    { SpillAcrossCall, SetAcrossCall, PairProgram, BranchProgram, NestedCallProgram,
      FactProgram, LoopProgram, BreakNested, BreakCounted, BreakInFunction }

\* Numbers no expression of SlotBodies computes.
GuardNumber(i) == -(100 + i)
GuardName(i) == "guard" \o ToString(i)
Guards(k) == [i \in 1..k |-> << GuardName(i), ENumber(GuardNumber(i)) >>]

\* (let ((guard1 -101) .. (guardk -10k)) e) as the main expression: e is
\* compiled at stack index 2 + k.
Guarded(k, p) == Program(p.defs, ELet(Guards(k), p.main))

\* The same let as the body of a function the main expression calls: e is
\* compiled at stack index 3 + k.
GuardedInFunction(k, p) ==
    Program(p.defs \o << Definition("guarded", <<>>, ELet(Guards(k), p.main)) >>,
            EFunCall("guarded", <<>>))

GuardedPrograms ==
    { Guarded(k, p) : k \in 1..MaxLets, p \in SlotBodies }
    \cup { GuardedInFunction(k, p) : k \in 1..MaxLets, p \in SlotBodies }

\* (fun (after p1 .. pn) (print 0)) (after (print 1) .. (print n))
PrintedArgs(n) == [j \in 1..n |-> EUnOp("Print", ENumber(j))]
PrintingArgs(n) ==
    Program(<< Definition("after", Params(n), EUnOp("Print", ENumber(0))) >>,
            EFunCall("after", PrintedArgs(n)))

\* (fun (diff a b) (- a b))
DiffDef == Definition("diff", << "a", "b" >>, EBinOp("Minus", EId("a"), EId("b")))

\* (let ((x 1)) (diff (block (set! x (+ x 1)) x) (block (set! x (* x 10)) x))):
\* 11 - 10 when the second argument is evaluated first, 2 - 20 otherwise.
SettingArgs ==
    Program(<< DiffDef >>,
            ELet(<< << "x", ENumber(1) >> >>,
                 EFunCall("diff",
                    << EBlock(<< ESet("x", EBinOp("Plus", EId("x"), ENumber(1))), EId("x") >>),
                       EBlock(<< ESet("x", EBinOp("Times", EId("x"), ENumber(10))),
                                 EId("x") >>) >>)))

\* (diff (print 1) (add1 true)): the second argument traps.
TrapInLastArg ==
    Program(<< DiffDef >>,
            EFunCall("diff", << EUnOp("Print", ENumber(1)),
                                EUnOp("Add1", EBoolean(TRUE)) >>))

\* (diff (add1 true) (print 2)): the first argument traps.
TrapInFirstArg ==
    Program(<< DiffDef >>,
            EFunCall("diff", << EUnOp("Add1", EBoolean(TRUE)),
                                EUnOp("Print", ENumber(2)) >>))

\* (fun (zero a b) 0) (zero (vec 1) (vec 2)): both arguments allocate.
AllocatingArgs ==
    Program(<< Definition("zero", << "a", "b" >>, ENumber(0)) >>,
            EFunCall("zero", << ETuple(<< ENumber(1) >>), ETuple(<< ENumber(2) >>) >>))

ArgOrderPrograms ==
    { PrintingArgs(n) : n \in 1..MaxArgs }
    \cup { SettingArgs, TrapInLastArg, TrapInFirstArg, AllocatingArgs }

ClosedPrograms ==
    UnaryPrograms \cup BinaryPrograms \cup IndexPrograms \cup TuplePrograms
    \cup CallPrograms \cup PrintPrograms \cup BadIndexPrograms \cup RejectedPrograms
    \cup {FactProgram, LoopProgram, PairProgram, SameProgram}
    \cup EqualityPrograms \cup {SamePointerProgram}
    \cup IndexOperandPrograms \cup {BranchProgram}
    \cup PickPrograms \cup {NestedCallProgram}
    \cup DirectCallPrograms \cup BodyCallPrograms \cup TablePrograms
    \cup ScopePrograms \cup BreakPrograms \cup VecSetPrograms
    \cup {LabelShapedProgram} \cup GuardedPrograms
    \cup ArgOrderPrograms

\* A run: a program, and the arguments the runtime was started with (the
\* input, or none).
Runs ==
    { [prog |-> p, argv |-> << PROGRAM_NAME >>] : p \in ClosedPrograms }
    \cup { [prog |-> p, argv |-> << PROGRAM_NAME, t >>] : p \in InputPrograms, t \in InputArgs }

\* The state of a run of program p started with the arguments a (st is
\* "compile" once parse_input has returned inp).
RunOf(p, a, inp, st, fill) ==
    /\ prog = p
    /\ argv = a
    /\ input = inp
    /\ LABEL_CTR = 0
    /\ code = <<>>
    /\ status = st
    /\ pc = 0
    /\ regs = EntryRegs(inp)
    /\ flags = [zf |-> FALSE, sf |-> FALSE, of |-> FALSE]
    /\ mem = EntryMem(fill)
    /\ frames = << [fn |-> "our_code_starts_here", regs |-> EntryRegs(inp),
                    ret |-> RET_TO_MAIN] >>
    /\ out = <<>>
    /\ exitcode = -1
    /\ errmsg = ""
    /\ rt = IdleRt
    /\ allocated = {}

\* ------------------------------------------------------------------------
\* The specification of a compiled program run by the runtime
\* ------------------------------------------------------------------------

NoFlags == [zf |-> FALSE, sf |-> FALSE, of |-> FALSE]

Init ==
    \E r \in Runs : \E fill \in JunkWords :
        /\ sexpr = NoSexp
        /\ RunOf(r.prog, r.argv, parse_input(InputArg(r.argv)).val, "compile", fill)

Next ==
    \/ Compile
    \/ ExecInstr
    \/ ExecPush
    \/ ExecPop
    \/ ExecCall
    \/ ExecRet
    \/ CallPrint
    \/ PrintReturn
    \/ CallError
    \/ MainPrint
    \/ MainExit
    \/ StrCall
    \/ StrLoop
    \/ StrRet

Spec == Init /\ [][Next]_vars

\* ------------------------------------------------------------------------
\* Properties of compiled programs
\* ------------------------------------------------------------------------

\* The run ended without a result.
Trapped == status \in {"exited", "segv"}

\* The word a literal evaluates to.
TagOf(e) ==
    CASE e.t = "Number" -> 2 * e.n
      [] e.t = "Boolean" -> IF e.b THEN TRUE_VAL ELSE FALSE_VAL
      [] e.t = "Nil" -> NIL_VAL

\* The elements of the vector an allocating element expression builds.
BuiltBy(e) == IF e.t = "Tuple" THEN e.args ELSE MkDef.body.args

\* w points to a vector whose elements are the values of the literals es.
PointsToVector(w, es) ==
    /\ w % 2 = 1 /\ (w - 1) \in allocated
    /\ \A j \in 1..Len(es) :
         /\ (w - 1 + WORD_SIZE * j) \in DOMAIN mem
         /\ mem[w - 1 + WORD_SIZE * j] = TagOf(es[j])

\* The main expression is (vec-get (vec e0 .. ek-1) i) with 0 <= i < k.
IsVecGetInBounds ==
    /\ prog.main.t = "Index"
    /\ prog.main.addr.t = "Tuple"
    /\ prog.main.offset.t = "Number"
    /\ prog.main.offset.n \in 0..(Len(prog.main.addr.args) - 1)

\* C1: the vector law.  (vec-get (vec e0 .. ek-1) i) with 0 <= i < k does not
\* trap and returns the value of e_i, also when an element expression
\* allocates (a nested vec, a call of a function that builds a vec).
C1_VectorLaw ==
    IsVecGetInBounds =>
        /\ ~Trapped
        /\ status = "returned" =>
             LET e == prog.main.addr.args[prog.main.offset.n + 1]
             IN IF e \in ScalarElems
                THEN regs["RAX"] = TagOf(e)
                ELSE PointsToVector(regs["RAX"], BuiltBy(e))

\* C2: the header of a vector built from k element expressions holds k, and
\* snek_print walks exactly k elements of it.
C2_HeaderIsCount ==
    prog.main.t = "Tuple" =>
        /\ status = "returned" =>
             mem[regs["RAX"] - 1] = Len(prog.main.args)
        /\ (status = "str" /\ rt.from = "main" /\ rt.stack # <<>>) =>
             rt.stack[1].size = Len(prog.main.args)

\* The next instruction calls a compiled function or snek_print.
AtCall == Running /\ Cur.op = "Call" /\ Cur.l # "snek_error"

\* C3: RSP is a multiple of 16 immediately before every call of a compiled
\* function or of snek_print, in the main expression and in function bodies.
C3_AlignedAtCall == AtCall => regs["RSP"] % 16 = 0

CalleeSaved == {"RBX", "R12", "R13", "R14", "R15"}

\* C4: a compiled function returns with RBX and R12 as at its entry, and
\* our_code_starts_here returns with RBX, R12, R13, R14, R15 as at its entry.
C4_CalleeSavedPreserved ==
    /\ (Running /\ Cur.op = "Ret" /\ Len(frames) > 1) =>
         /\ regs["RBX"] = frames[Len(frames)].regs["RBX"]
         /\ regs["R12"] = frames[Len(frames)].regs["R12"]
    /\ status = "returned" =>
         \A r \in CalleeSaved : regs[r] = EntryRegs(input)[r]

\* w is a valid tagged value: a number, false, true, nil, or a pointer to the
\* header of an allocated vector.
TagSound(w) ==
    \/ w % 2 = 0
    \/ w \in {NIL_VAL, FALSE_VAL, TRUE_VAL}
    \/ (w % 2 = 1 /\ (w - 1) \in allocated)

\* The next instruction stores RAX in a stack slot or a vector element.
AtStoreOfResult ==
    Running /\ Cur.op = "Mov" /\ Cur.a.k = "RegOff" /\ Cur.b = RAX

\* C7: tag soundness.  The word in RAX when it is stored in a stack slot or in
\* a vector element, when a function or the main expression returns it, and
\* every element word of the heap, is a valid tagged value.
C7_TagSoundness ==
    /\ AtStoreOfResult => TagSound(regs["RAX"])
    /\ (Running /\ Cur.op = "Ret") => TagSound(regs["RAX"])
    /\ status = "returned" => TagSound(regs["RAX"])
    /\ status \in {"running", "returned"} =>
         \A a \in HeapAddrs :
             (a < regs["R15"] /\ a \notin allocated) => TagSound(mem[a])

\* A vector was built and its pointer returned by the main expression.
C7_Witness ==
    /\ prog.main.t = "Tuple" /\ status = "returned"
    /\ regs["RAX"] \notin {NIL_VAL, FALSE_VAL, TRUE_VAL}
    /\ (regs["RAX"] - 1) \in allocated
    /\ \E a \in HeapAddrs : a < regs["R15"] /\ (mem[a] - 1) \in allocated

\* The main expression applies op to number literals.
IsArith1OnNumbers ==
    prog.main.t = "UnOp" /\ prog.main.op \in ArithOps1 /\ prog.main.e.t = "Number"
IsArith2OnNumbers ==
    /\ prog.main.t = "BinOp" /\ prog.main.op \in ArithOps2
    /\ prog.main.e1.t = "Number" /\ prog.main.e2.t = "Number"

\* The mathematical result of the main expression.
ExactResult ==
    IF prog.main.t = "UnOp"
    THEN IF prog.main.op = "Add1" THEN prog.main.e.n + 1 ELSE prog.main.e.n - 1
    ELSE CASE prog.main.op = "Plus"  -> prog.main.e1.n + prog.main.e2.n
           [] prog.main.op = "Minus" -> prog.main.e1.n - prog.main.e2.n
           [] prog.main.op = "Times" -> prog.main.e1.n * prog.main.e2.n

\* C8: add1, sub1, +, - and * on numbers return the tagged exact result when
\* it is in the number range and trap with error code 1 otherwise; (- a b) is
\* a minus b.
C8_Arithmetic ==
    (IsArith1OnNumbers \/ IsArith2OnNumbers) =>
        /\ status # "segv"
        /\ status = "returned" =>
             /\ ~int_overflow(ExactResult)
             /\ regs["RAX"] = 2 * ExactResult
        /\ status = "exited" =>
             /\ int_overflow(ExactResult)
             /\ exitcode = ERR_NUM_OVERFLOW
        /\ status = "done" => out = ToDecimal(ExactResult) \o NEWLINE

\* (- 1 2) has returned -1, and so not 1.
C8_Witness ==
    /\ prog.main = EBinOp("Minus", ENumber(1), ENumber(2))
    /\ status = "returned" /\ regs["RAX"] = 2 * (-1)

\* The main expression applies an arithmetic operator to the operands.
IsArith1 == prog.main.t = "UnOp" /\ prog.main.op \in ArithOps1 /\ prog.main.e \in Operands
IsArith2 ==
    /\ prog.main.t = "BinOp" /\ prog.main.op \in ArithOps2
    /\ prog.main.e1 \in Operands /\ prog.main.e2 \in Operands

\* Some operand of the main expression is not a number.
SomeNonNumber ==
    IF prog.main.t = "UnOp" THEN prog.main.e \in NonNumbers
    ELSE prog.main.e1 \in NonNumbers \/ prog.main.e2 \in NonNumbers

\* C9: an operand of add1, sub1, +, - or * that is not a number makes the
\* program trap with error code 2 and no result is produced; with numbers for
\* all operands that trap is never taken.
C9_InvalidArgument ==
    (IsArith1 \/ IsArith2) =>
        IF SomeNonNumber
        THEN /\ status \notin {"returned", "str", "done", "segv"}
             /\ status = "exited" => exitcode = ERR_INVALID_TYPE
             /\ out = <<>>
        ELSE ~(status = "exited" /\ exitcode = ERR_INVALID_TYPE)

\* (+ 1 true) has trapped with error code 2.
C9_Witness ==
    /\ prog.main = EBinOp("Plus", ENumber(1), EBoolean(TRUE))
    /\ status = "exited" /\ exitcode = ERR_INVALID_TYPE

\* The main expression compares two operands.
IsInequality ==
    /\ prog.main.t = "BinOp" /\ prog.main.op \in InequalityOps
    /\ prog.main.e1 \in Operands /\ prog.main.e2 \in Operands

\* The relation the main expression states holds of its number operands.
RelationHolds ==
    CASE prog.main.op = "Less"         -> prog.main.e1.n < prog.main.e2.n
      [] prog.main.op = "LessEqual"    -> prog.main.e1.n <= prog.main.e2.n
      [] prog.main.op = "Greater"      -> prog.main.e1.n > prog.main.e2.n
      [] prog.main.op = "GreaterEqual" -> prog.main.e1.n >= prog.main.e2.n

\* C10: <, <=, > and >= on numbers return true exactly when the relation
\* holds, false otherwise, and never trap; when an operand is not a number
\* the program traps with error code 2.
C10_Inequalities ==
    IsInequality =>
        IF SomeNonNumber
        THEN /\ status \notin {"returned", "str", "done", "segv"}
             /\ status = "exited" => exitcode = ERR_INVALID_TYPE
        ELSE /\ ~Trapped
             /\ status = "returned" =>
                  regs["RAX"] = IF RelationHolds THEN TRUE_VAL ELSE FALSE_VAL

\* (< I63_MIN I63_MAX), whose operands differ by more than the number range,
\* has returned true.
C10_Witness ==
    /\ prog.main = EBinOp("Less", ENumber(I63_MIN), ENumber(I63_MAX))
    /\ status = "returned" /\ regs["RAX"] = TRUE_VAL

\* The main expression is (= e1 e2) on two operands.
IsEquality ==
    /\ prog.main.t = "BinOp" /\ prog.main.op = "Equal"
    /\ prog.main.e1 \in Operands /\ prog.main.e2 \in Operands

\* The representation class of the value of an operand.
ClassOf(e) ==
    CASE e.t = "Number" -> "number"
      [] e.t = "Boolean" -> "boolean"
      [] e.t \in {"Nil", "Tuple"} -> "pointer"

\* The operands of the main expression evaluate to the same word: equal
\* literals (a vec operand is a fresh pointer, equal to no other operand).
SameWord ==
    /\ prog.main.e1.t # "Tuple" /\ prog.main.e2.t # "Tuple"
    /\ TagOf(prog.main.e1) = TagOf(prog.main.e2)

\* C11: (= A B) traps with error code 2 exactly when A and B are of different
\* representation classes (number, boolean, pointer or nil); otherwise it
\* returns true when the two words are identical and false when they differ.
\* Two numbers never trap, whatever their low two bits.
C11_Equality ==
    /\ IsEquality =>
         IF ClassOf(prog.main.e1) # ClassOf(prog.main.e2)
         THEN /\ status \notin {"returned", "str", "done", "segv"}
              /\ status = "exited" => exitcode = ERR_INVALID_TYPE
         ELSE /\ ~Trapped
              /\ status = "returned" =>
                   regs["RAX"] = IF SameWord THEN TRUE_VAL ELSE FALSE_VAL
    /\ (prog = SamePointerProgram /\ status = "returned") => regs["RAX"] = TRUE_VAL

\* (= true (vec 1)), a boolean against a pointer, has trapped with error code 2.
C11_Witness ==
    /\ prog.main = EBinOp("Equal", EBoolean(TRUE), ETuple(<< ENumber(1) >>))
    /\ status = "exited" /\ exitcode = ERR_INVALID_TYPE

\* The main expression is (vec-get (vec e0 .. ek-1) e) with a literal or a
\* vec as the index e.
IsVecGet ==
    /\ prog.main.t = "Index" /\ prog.main.addr.t = "Tuple"
    /\ prog.main.offset \in Operands \cup { ENumber(i) : i \in (-1)..MaxVecLen }

\* The next instruction loads the element, or the size, of the vector RBX
\* holds the address of.
AtElementLoad == Running /\ Cur = Mov(RAX, RegOff("RBX", 0))
AtSizeLoad == Running /\ Cur = Mov(R12, RegOff("RBX", 0))

\* The addresses of the k element words of the vector at address a.
ElementWordsOf(a, k) == { a + WORD_SIZE * j : j \in 1..k }

\* C12: vec-get on a vector of k elements traps with error code 5 when the
\* index is not a number and with error code 3 when it is a number i with
\* i < 0 or i >= k; a number index with 0 <= i < k passes both checks, and
\* the element load reads one of the k element words of the vector.
C12_IndexValidation ==
    IsVecGet =>
        LET k == Len(prog.main.addr.args)
            idx == prog.main.offset
        IN /\ idx.t # "Number" =>
                /\ status \notin {"returned", "str", "done", "segv"}
                /\ status = "exited" => exitcode = ERR_NOT_INDEX_OFFSET
           /\ (idx.t = "Number" /\ idx.n \notin 0..(k - 1)) =>
                /\ status \notin {"returned", "str", "done", "segv"}
                /\ status = "exited" => exitcode = ERR_INDEX_OUT_OF_BOUNDS
           /\ (idx.t = "Number" /\ idx.n \in 0..(k - 1)) => ~Trapped
           /\ AtSizeLoad => regs["RBX"] = HeapStart
           /\ AtElementLoad =>
                /\ idx.t = "Number" /\ idx.n \in 0..(k - 1)
                /\ regs["RBX"] = HeapStart + WORD_SIZE * (idx.n + 1)
                /\ regs["RBX"] \in ElementWordsOf(HeapStart, k)

\* (vec-get (vec 1 2) -1) has trapped with error code 3.
C12_Witness ==
    /\ prog.main = EIndex(ETuple(<< ENumber(1), ENumber(2) >>), ENumber(-1))
    /\ status = "exited" /\ exitcode = ERR_INDEX_OUT_OF_BOUNDS

\* The main expression is (vec-get e 0) for a literal e: nil, a boolean or a
\* number.
IsVecGetOfNonVector ==
    /\ prog.main.t = "Index"
    /\ prog.main.addr.t \in {"Nil", "Boolean", "Number"}

\* C13: a receiver of vec-get that is nil, a boolean or a number makes the
\* program trap with error code 4, before any heap word is read.
C13_ReceiverCheck ==
    IsVecGetOfNonVector =>
        /\ status \notin {"returned", "str", "done", "segv"}
        /\ status = "exited" => exitcode = ERR_NOT_HEAP_ADDRESS
        /\ ~AtSizeLoad

\* The error kinds and their codes.
ErrorKindCodes ==
    [numeric_overflow |-> 1, invalid_argument |-> 2, index_out_of_bounds |-> 3,
     invalid_vector_address |-> 4, invalid_vector_offset |-> 5,
     invalid_vector_size |-> 6]

\* The message of each error kind.
ErrorKindMessage ==
    [numeric_overflow |-> "an error occurred: numeric overflow",
     invalid_argument |-> "an error occurred: invalid argument (incompatible types)",
     index_out_of_bounds |-> "an error occurred: index out of bounds",
     invalid_vector_address |-> "an error occurred: invalid vector address",
     invalid_vector_offset |-> "an error occurred: invalid vector offset",
     invalid_vector_size |-> "an error occurred: vector address out of bounds"]

\* The error kind a label of the emitted code stands for.
KindOfLabel(l) ==
    CASE l = NUM_OVERFLOW_LABEL -> "numeric_overflow"
      [] l = INVALID_TYPE_LABEL -> "invalid_argument"
      [] l = INDEX_OUT_OF_BOUNDS_LABEL -> "index_out_of_bounds"
      [] l = NOT_HEAP_ADDRESS_LABEL -> "invalid_vector_address"
      [] l = NOT_INDEX_OFFSET_LABEL -> "invalid_vector_offset"
      [] OTHER -> "none"

\* The error kind a member of ErrCode stands for.
KindOfErrCode ==
    [Overflow |-> "numeric_overflow", InvalidType |-> "invalid_argument",
     IndexOutOfBounds |-> "index_out_of_bounds", InvalidVecSize |-> "invalid_vector_size"]

\* The conditional and unconditional jumps.
JumpOps == {"Jump", "JumpEqual", "JumpNotEqual", "JumpNotZero", "JumpGreaterEqual",
            "JumpLess", "JumpOverflow"}

\* The label of the trampoline whose call of snek_error ended the run.
TrampolineLabel == code[pc - 3].l

\* A trap exits with the code of the kind of the trampoline taken, and with
\* that kind's message.
TrampolinesAgree ==
    status = "exited" =>
        /\ code[pc - 3].op = "Label"
        /\ KindOfLabel(TrampolineLabel) \in DOMAIN ErrorKindCodes
        /\ exitcode = ErrorKindCodes[KindOfLabel(TrampolineLabel)]
        /\ errmsg = ErrorKindMessage[KindOfLabel(TrampolineLabel)]

\* Every label the emitted code jumps to is defined in it.
JumpTargetsDefined ==
    \A i \in 1..Len(code) : code[i].op \in JumpOps => HasLabel(code, code[i].l)

\* Each member of ErrCode has the code of its kind, for which snek_error
\* prints the message of that kind.
ErrCodesAgree ==
    \A m \in DOMAIN ErrCode :
        /\ ErrCode[m] = ErrorKindCodes[KindOfErrCode[m]]
        /\ snek_error_message(ErrCode[m]) = ErrorKindMessage[KindOfErrCode[m]]

\* C14: compiler and runtime agree on one code per error kind.  The code a
\* trampoline loads is the one snek_error prints that kind's message for and
\* exits with, the error-code constants of the compiler carry the same
\* numbering, and every label the emitted code jumps to has a trampoline.
C14_ErrorCodesAgree ==
    /\ TrampolinesAgree
    /\ JumpTargetsDefined
    /\ ErrCodesAgree

\* The next instruction is the ret of the function on top of frames.
AtRet == Running /\ Cur.op = "Ret" /\ frames # <<>>

\* Every sub from RSP before a call is followed, after the call, by an add of
\* the same amount.
SubsUndone ==
    \A i \in 1..Len(code) :
        (code[i].op = "Sub" /\ code[i].a = RSP) =>
            /\ i + 3 <= Len(code)
            /\ code[i + 1].op = "Call"
            /\ \E j \in {i + 2, i + 3} : code[j] = Add(RSP, code[i].b)

\* C16: frame balance.  At the ret of every compiled function and of
\* our_code_starts_here RSP is what it was at entry and the word it points to
\* is the return address the matching call pushed; every sub from RSP around
\* a call is undone by an add of the same amount.
C16_FrameBalance ==
    /\ AtRet =>
         /\ regs["RSP"] = frames[Len(frames)].regs["RSP"]
         /\ mem[regs["RSP"]] = frames[Len(frames)].ret
    /\ status = "returned" => regs["RSP"] = StackTop + WORD_SIZE
    /\ SubsUndone

\* g has reached its ret through the break of its loop, called from the else
\* arm of h.
C16_Witness ==
    /\ prog = BranchProgram /\ AtRet
    /\ Len(frames) = 3 /\ frames[3].fn = "g" /\ frames[2].fn = "h"
    /\ out = << "1" >> \o NEWLINE \o << "1" >> \o NEWLINE

\* The program calls pick, which returns one of its parameters.
IsPick == prog \in PickPrograms

\* The index (from 1) of the parameter pick returns.
PickedParam == CHOOSE i \in 1..MaxArgs : prog.defs[1].body = EId(ParamName(i))

\* The next instruction is the first of the body of the function on top of
\* frames: the return address and RBX have been pushed.
AtBodyEntry ==
    /\ Running /\ Len(frames) > 1 /\ pc > 1
    /\ code[pc - 1] = Push(RBX)

\* C17: argument passing.  In a call (f a_0 .. a_(n-1)), under any number of
\* bindings of the caller, reading p_i in the body of f yields the value of
\* a_i: the callee's offset of p_i resolves to the slot the caller stored a_i
\* in.
C17_ArgumentPassing ==
    /\ IsPick =>
         /\ ~Trapped
         /\ AtBodyEntry =>
              \A j \in 1..Len(prog.defs[1].params) :
                  mem[regs["RSP"] - ParamOffset(j - 1)] = 2 * (10 * j + 1)
         /\ status = "returned" => regs["RAX"] = 2 * (10 * PickedParam + 1)
    /\ prog = NestedCallProgram =>
         /\ ~Trapped
         /\ status = "returned" => regs["RAX"] = 2 * 2

\* pick with two parameters, called under one binding with 11 and 21, has
\* returned its second parameter.
C17_Witness ==
    /\ IsPick /\ status = "returned"
    /\ Len(prog.defs[1].params) = 2 /\ PickedParam = 2
    /\ prog.main.t = "Let" /\ Len(prog.main.bindings) = 1
    /\ regs["RAX"] = 2 * 21

\* The next instruction evaluates input.
AtInputRead == Running /\ Cur = Mov(RAX, RDI)

\* C18: in the main expression input evaluates to the value the runtime
\* passed in, also after print calls and calls of functions (nested and
\* recursive ones): RDI holds the input whenever input is read and when the
\* main expression returns.
C18_InputPreserved ==
    /\ AtInputRead => regs["RDI"] = input
    /\ status = "returned" => regs["RDI"] = input

\* The last read of input of the program that calls down: the print of
\* input and the four prints of down, one of them in a recursive call, are
\* done.
C18_Witness ==
    /\ prog = InputAfterRecursionProgram /\ input = TRUE_VAL
    /\ AtInputRead /\ regs["RDI"] = TRUE_VAL
    /\ Len(out) = Len(STR_TRUE) + 1 + 4 * 2

\* The parameter lists of the definitions named name.
ParamsOf(name) ==
    { prog.defs[i].params : i \in { j \in 1..Len(prog.defs) : prog.defs[j].name = name } }

\* The message for a call of name with k arguments where m are expected.
ArgCountMessage(name, k, m) ==
    "Invalid: function " \o name \o " called with " \o ToString(k)
    \o " args, expected " \o ToString(m)

\* compile_program has panicked with msg.
Refused(msg) == status = "compile_error" /\ errmsg = msg

\* C19: call validation.  A call of a name that is not in the function table
\* fails with "Invalid: undefined function <name>", a call with k arguments
\* of a function of m # k parameters fails with "Invalid: function <name>
\* called with k args, expected m", in the main expression and in a function
\* body; a call of a defined function with the right count compiles, also
\* when the function is defined later, calls itself or is mutually recursive.
C19_CallValidation ==
    /\ (prog \in DirectCallPrograms /\ status # "compile") =>
         LET name == prog.main.funname
             k == Len(prog.main.args)
         IN IF ParamsOf(name) = {}
            THEN Refused("Invalid: undefined function " \o name)
            ELSE \A ps \in ParamsOf(name) :
                   IF Len(ps) # k
                   THEN Refused(ArgCountMessage(name, k, Len(ps)))
                   ELSE status # "compile_error"
    /\ (prog = Program(<< TwiceDef >>, ENumber(1)) /\ status # "compile") =>
         Refused(ArgCountMessage("twice", 1, 2))
    /\ (prog = Program(<< LostDef >>, ENumber(1)) /\ status # "compile") =>
         Refused("Invalid: undefined function nope")
    /\ prog \in {FactProgram, BranchProgram} => status # "compile_error"

\* (even 1), whose even calls odd, which is defined after it, was compiled and
\* has returned false.
C19_Witness ==
    /\ prog = Program(<< EvenDef, OddDef >>, EFunCall("even", << ENumber(1) >>))
    /\ status = "returned" /\ regs["RAX"] = FALSE_VAL

\* Two definitions of the program have the same name.
SameNameTwice ==
    \E i, j \in 1..Len(prog.defs) : i < j /\ prog.defs[i].name = prog.defs[j].name

\* A definition of the program lists a parameter twice.
SameParamTwice ==
    \E i \in 1..Len(prog.defs) :
        Cardinality({ prog.defs[i].params[k] : k \in 1..Len(prog.defs[i].params) })
            < Len(prog.defs[i].params)

\* The function table: every defined name with its parameter list.
TableOf(defs) ==
    [name \in { defs[i].name : i \in 1..Len(defs) } |->
        (CHOOSE i \in 1..Len(defs) : defs[i].name = name) ]

\* The function table the first pass leaves, and the one a body is compiled
\* with.
FirstPassTable == first_pass(prog.defs, 1, EmptyEnv).fun_env
BodyTable(i) == FunctionContext(prog.defs[i], BaseContext(FirstPassTable)).function_env

\* C20: compile_program fails when two definitions have the same name, and
\* fails with "Duplicate parameter" when one definition lists a parameter
\* twice; a parameter name used by two functions is accepted, and after the
\* first pass the function table maps every defined name to its parameter
\* list, for the bodies as well.
C20_DefinitionTable ==
    (prog \in TablePrograms /\ status # "compile") =>
        /\ SameNameTwice => status = "compile_error"
        /\ (SameParamTwice /\ ~SameNameTwice) =>
             /\ status = "compile_error"
             /\ \E ps \in { "a", "b" } : errmsg = "Duplicate parameter " \o ps
        /\ (~SameNameTwice /\ ~SameParamTwice) =>
             /\ status # "compile_error"
             /\ DOMAIN FirstPassTable = DOMAIN TableOf(prog.defs)
             /\ \A name \in DOMAIN FirstPassTable :
                  FirstPassTable[name] = prog.defs[TableOf(prog.defs)[name]].params
             /\ \A i \in 1..Len(prog.defs) : BodyTable(i) = FirstPassTable

\* (fun (f a b a) 1) was refused for its parameter a.
C20_Witness ==
    /\ prog = Program(<< Definition("f", << "a", "b", "a" >>, ENumber(1)) >>, ENumber(1))
    /\ status = "compile_error" /\ errmsg = "Duplicate parameter a"

\* The value of an expression of numbers, variables, add1, + and * and lets
\* under sequential scoping, scope giving the values of the variables in
\* scope: err is the message of the first static error met.
RECURSIVE ScopedValue(_, _)
RECURSIVE ScopedLet(_, _, _, _, _)
ScopedLet(bindings, i, body, scope, bound) ==
    IF i > Len(bindings) THEN ScopedValue(body, scope)
    ELSE IF bindings[i][1] \in bound THEN [err |-> "Duplicate binding", v |-> 0]
    ELSE LET r == ScopedValue(bindings[i][2], scope)
         IN IF r.err # "" THEN r
            ELSE ScopedLet(bindings, i + 1, body,
                           [n \in DOMAIN scope \cup { bindings[i][1] } |->
                               IF n = bindings[i][1] THEN r.v ELSE scope[n]],
                           bound \cup { bindings[i][1] })
ScopedValue(e, scope) ==
    CASE e.t = "Number" -> [err |-> "", v |-> e.n]
      [] e.t = "Id" ->
           IF e.s \in DOMAIN scope THEN [err |-> "", v |-> scope[e.s]]
           ELSE [err |-> "Unbound variable identifier " \o e.s, v |-> 0]
      [] e.t = "UnOp" ->
           LET r == ScopedValue(e.e, scope)
           IN IF r.err # "" THEN r ELSE [err |-> "", v |-> r.v + 1]
      [] e.t = "BinOp" ->
           LET r1 == ScopedValue(e.e1, scope)
               r2 == ScopedValue(e.e2, scope)
           IN IF r1.err # "" THEN r1
              ELSE IF r2.err # "" THEN r2
              ELSE [err |-> "", v |-> IF e.op = "Plus" THEN r1.v + r2.v ELSE r1.v * r2.v]
      [] e.t = "Let" -> ScopedLet(e.bindings, 1, e.body, scope, {})

\* The run agrees with the scoped value r of its main expression.
AgreesWithScoped(r) ==
    IF r.err # ""
    THEN status = "compile_error" /\ errmsg = r.err
    ELSE /\ status \notin { "compile_error", "exited", "segv" }
         /\ status = "returned" => regs["RAX"] = 2 * r.v

\* C21: let is sequentially scoped.  The right-hand side of a binding sees
\* the enclosing variables and the bindings before it only (not its own
\* name, not later ones; a same-named outer variable is what it reads), the
\* body sees all bindings, a name bound twice in one let is rejected with
\* "Duplicate binding", and a nested let shadows an outer name within its
\* body only.
C21_LetScoping ==
    (prog \in ScopePrograms /\ status # "compile") =>
        AgreesWithScoped(ScopedValue(prog.main, [n \in {} |-> 0]))

\* (let ((x 5)) (+ (* (let ((x (add1 x)) (y x)) y) 10) x)) returned 65: the
\* inner x was bound to 6 from the outer x, y read the inner x, and the x
\* after the inner let is the outer one.
C21_Witness ==
    /\ prog = Program(<<>>, ELet(<< << "x", ENumber(5) >> >>,
                  EBinOp("Plus",
                         EBinOp("Times",
                                ELet(<< << "x", EUnOp("Add1", EId("x")) >>,
                                        << "y", EId("x") >> >>, EId("y")),
                                ENumber(10)),
                         EId("x"))))
    /\ status = "returned" /\ regs["RAX"] = 2 * 65

\* e has a break that no loop of e encloses (in_loop: e itself is inside a
\* loop).
RECURSIVE StrayBreak(_, _)
StrayBreak(e, in_loop) ==
    CASE e.t = "Break" -> ~in_loop \/ StrayBreak(e.e, in_loop)
      [] e.t = "Loop" -> StrayBreak(e.e, TRUE)
      [] e.t \in { "Number", "Boolean", "Nil", "Id" } -> FALSE
      [] e.t \in { "UnOp", "Set" } -> StrayBreak(e.e, in_loop)
      [] e.t = "BinOp" -> StrayBreak(e.e1, in_loop) \/ StrayBreak(e.e2, in_loop)
      [] e.t = "If" ->
           \/ StrayBreak(e.cond, in_loop) \/ StrayBreak(e.then_ex, in_loop)
           \/ StrayBreak(e.else_ex, in_loop)
      [] e.t = "Let" ->
           \/ \E i \in 1..Len(e.bindings) : StrayBreak(e.bindings[i][2], in_loop)
           \/ StrayBreak(e.body, in_loop)
      [] e.t = "Block" -> \E i \in 1..Len(e.exprs) : StrayBreak(e.exprs[i], in_loop)
      [] e.t \in { "FunCall", "Tuple" } ->
           \E i \in 1..Len(e.args) : StrayBreak(e.args[i], in_loop)
      [] e.t = "Index" -> StrayBreak(e.addr, in_loop) \/ StrayBreak(e.offset, in_loop)

\* A function body or the main expression has a break outside its loops.
HasStrayBreak ==
    \/ StrayBreak(prog.main, FALSE)
    \/ \E i \in 1..Len(prog.defs) : StrayBreak(prog.defs[i].body, FALSE)

\* The value of the programs whose loop is ended by a break, and what they
\* have printed by then.
BreakValue ==
    CASE prog = BreakOnce -> 7
      [] prog = BreakNested -> 2
      [] prog = BreakCounted -> 12
      [] prog = BreakInFunction -> 4
BreakOutput == IF prog = BreakNested THEN << "1" >> \o NEWLINE ELSE <<>>

\* The end label of the outermost loop of the main expression.
OuterEndLabel == "endloop_1"

\* C22: a break outside the loops of its function body (or of the main
\* expression) is a compile error that mentions break, a loop around the
\* call site not counting; otherwise the break jumps to the end of the
\* innermost loop with the value of its operand, which is the value of the
\* loop, and a loop whose body executes no break never reaches its end label.
C22_BreakAndLoop ==
    (prog \in BreakPrograms /\ status # "compile") =>
        IF HasStrayBreak
        THEN status = "compile_error" /\ errmsg = "Error: break without surrounding loop"
        ELSE /\ status # "compile_error"
             /\ IF prog \in EndlessPrograms
                THEN /\ HasLabel(code, OuterEndLabel)
                     /\ ~(Running /\ Cur = Label(OuterEndLabel))
                     /\ status \notin { "returned", "str", "done" }
                ELSE /\ ~Trapped
                     /\ status = "returned" =>
                          regs["RAX"] = 2 * BreakValue /\ out = BreakOutput

\* The nested loops have returned 2 after the inner loop's 1 was printed.
C22_Witness ==
    /\ prog = BreakNested /\ status = "returned"
    /\ regs["RAX"] = 2 * 2 /\ out = << "1" >> \o NEWLINE

\* The vec-set! of a program of VecSetPrograms, the length of its vector, and
\* the index read after it (none: the vec-set! is the body).
VecSetOf == IF prog.main.body.t = "VecSet" THEN prog.main.body ELSE prog.main.body.exprs[1]
VecSetLength == Len(prog.main.bindings[1][2].args)
VecSetInRange == VecSetOf.e2.n \in 0..(VecSetLength - 1)

\* The vector of the program, the first of the heap, holds these elements
\* after its header.
VectorHolds(elems) ==
    /\ mem[HeapStart] = TupleHeader(VecSetLength)
    /\ \A j \in 0..(VecSetLength - 1) : mem[HeapStart + WORD_SIZE * (j + 1)] = elems[j]

\* The compiled code, not the runtime's printing of its result, has faulted.
CodeFaulted == status = "segv" /\ frames # <<>>

C26_LabelsDistinct ==
    \A i, j \in 1..Len(code) :
        (code[i].op = "Label" /\ code[j].op = "Label" /\ code[i].l = code[j].l) => i = j

\* ------------------------------------------------------------------------
\* The runtime's snek_print on the heaps of two vectors
\* ------------------------------------------------------------------------

\* The most elements of a vector of these heaps.
MaxElems == 2

\* Two vectors, a and b, laid out one after the other from heap_start.
VecA == HeapStart
VecB == HeapStart + WORD_SIZE * (MaxElems + 1)
PtrA == VecA + 1
PtrB == VecB + 1

\* An element is the number 1 or a pointer to a or to b.
ElemWords == {Shl(1, 1), PtrA, PtrB}

\* The elements of a vector: 1 to MaxElems of them.
VecShapes == UNION { [1..k -> ElemWords] : k \in 1..MaxElems }

\* The heap in which a and b have the given elements; the header is the
\* number of elements, as snek_str and snek_equals_helper read it.
HeapOf(a, b) ==
    [addr \in HeapAddrs \cup StackAddrs |->
       IF addr = VecA THEN Len(a)
       ELSE IF addr = VecB THEN Len(b)
       ELSE IF \E j \in 1..Len(a) : addr = VecA + WORD_SIZE * j
       THEN a[(addr - VecA) \div WORD_SIZE]
       ELSE IF \E j \in 1..Len(b) : addr = VecB + WORD_SIZE * j
       THEN b[(addr - VecB) \div WORD_SIZE]
       ELSE 0]

\* The state outside a compiled program: only the heap and the arguments of
\* the runtime function matter.
RuntimeOnly(heap, arg1, arg2) ==
    /\ sexpr = NoSexp
    /\ prog = Program(<<>>, ENil)
    /\ argv = << PROGRAM_NAME >>
    /\ input = FALSE_VAL
    /\ LABEL_CTR = 0
    /\ code = <<>>
    /\ status = "idle"
    /\ pc = 0
    /\ regs = [EntryRegs(FALSE_VAL) EXCEPT !["RDI"] = arg1, !["RSI"] = arg2]
    /\ flags = NoFlags
    /\ mem = heap
    /\ frames = <<>>
    /\ out = <<>>
    /\ exitcode = -1
    /\ errmsg = ""
    /\ allocated = {VecA, VecB}

InitPrint ==
    \E a \in VecShapes : \E b \in VecShapes : \E root \in {PtrA, PtrB} :
        /\ RuntimeOnly(HeapOf(a, b), root, 0)
        /\ rt = IdleRt

\* snek_print(RDI) is called, twice in all.
PrintCall ==
    /\ status = "idle" /\ rt.calls < 2
    /\ status' = "str"
    /\ rt' = snek_print(regs["RDI"], "caller")
    /\ UNCHANGED << sexpr, prog, argv, input, LABEL_CTR, code, pc, regs, flags, mem, frames,
                    out, exitcode, errmsg, allocated >>

\* snek_print writes the line and returns its argument.
PrintDone ==
    /\ StrDone /\ rt.from = "caller"
    /\ out' = out \o rt.ret \o NEWLINE
    /\ status' = "idle"
    /\ regs' = [regs EXCEPT !["RAX"] = rt.val]
    /\ rt' = [rt EXCEPT !.mode = "idle", !.calls = rt.calls + 1]
    /\ UNCHANGED << sexpr, prog, argv, input, LABEL_CTR, code, pc, flags, mem, frames,
                    exitcode, errmsg, allocated >>

NextPrint == PrintCall \/ StrCall \/ StrLoop \/ StrRet \/ PrintDone

SpecPrint == InitPrint /\ [][NextPrint]_vars

RECURSIVE Render(_, _)
RECURSIVE RenderElems(_, _, _, _)

\* The text of a value: a vector that is being rendered (one of ancestors)
\* is [...], any other vector is rendered in full.
Render(val, ancestors) ==
    IF val = TRUE_VAL THEN STR_TRUE
    ELSE IF val = FALSE_VAL THEN STR_FALSE
    ELSE IF val % 2 = 0 THEN ToDecimal(val \div 2)
    ELSE IF val = NIL_VAL THEN STR_NIL
    ELSE IF val \in ancestors THEN STR_SEEN
    ELSE << "[" >> \o RenderElems(val, 1, mem[val - 1], ancestors \cup {val}) \o << "]" >>

RenderElems(val, i, size, ancestors) ==
    IF i > size THEN <<>>
    ELSE Render(mem[val - 1 + WORD_SIZE * i], ancestors)
         \o (IF i < size THEN STR_SEP ELSE <<>>)
         \o RenderElems(val, i + 1, size, ancestors)

\* The vectors snek_str is walking.
Walking == { rt.stack[i].val : i \in 1..Len(rt.stack) }

\* C6 as amended: a vector met again while snek_str is still walking it (a
\* reference to itself or to an ancestor) is rendered [...] and not walked
\* into again, any other vector is rendered in full at each occurrence, and
\* the second snek_print of the same value writes the same line.
C6_PrintBackReferences ==
    /\ status = "str" =>
         /\ \A i, j \in 1..Len(rt.stack) : rt.stack[i].val = rt.stack[j].val => i = j
         /\ (rt.mode = "ret" /\ rt.arg \in Walking) => rt.ret = STR_SEEN
         /\ rt.mode = "ret" => rt.ret = Render(rt.arg, Walking)
    /\ (status = "idle" /\ rt.calls = 1) => out = Render(regs["RDI"], {}) \o NEWLINE
    /\ (status = "idle" /\ rt.calls = 2) =>
         out = Render(regs["RDI"], {}) \o NEWLINE \o Render(regs["RDI"], {}) \o NEWLINE

\* a = [a, b] and b = [1, a] was printed twice: a's reference to itself and
\* b's to its ancestor a were met.
C6_Witness ==
    /\ status = "idle" /\ rt.calls = 2 /\ regs["RDI"] = PtrA
    /\ mem[VecA] = 2 /\ mem[VecA + WORD_SIZE] = PtrA /\ mem[VecA + 2 * WORD_SIZE] = PtrB
    /\ mem[VecB] = 2 /\ mem[VecB + 2 * WORD_SIZE] = PtrA
    /\ \E i \in 1..Len(out) : out[i] = "."

\* C6 as stated: within one snek_print a vector that was visited already is
\* not walked into again, be it an ancestor or a vector two siblings share.
C6_NoVectorWalkedTwice ==
    status = "str" =>
        \A i, j \in 1..Len(rt.log) : rt.log[i] = rt.log[j] => i = j

\* ------------------------------------------------------------------------
\* The runtime's snek_equals on the heaps of two vectors
\* ------------------------------------------------------------------------

\* The activations of snek_equals_helper the stack of the process has room
\* for.
MaxEqualsDepth == 6

\* snek_equals(val1, val2): snek_equals_helper with an empty seen.
snek_equals(val1, val2) ==
    [mode |-> "call", val1 |-> val1, val2 |-> val2, ret |-> 0, stack |-> <<>>,
     seen |-> {}, log |-> <<>>]

\* One pointer is enough to take the pointer branch.
IsPointerPairEither(val1, val2) == BitAnd(val1, 3) = 1 \/ BitAnd(val2, 3) = 1

IsPointerPair(val1, val2) == BitAnd(val1, 3) = 1 /\ BitAnd(val2, 3) = 1

\* snek_equals_helper returns ret, after seen.remove(&(val1, val2)).
EqReturnForgetting(ret) ==
    rt' = [rt EXCEPT !.mode = "ret", !.ret = ret,
                     !.seen = rt.seen \ {<< rt.val1, rt.val2 >>}]

\* snek_equals_helper is entered with rt.val1 and rt.val2.
EqCall ==
    /\ status = "equals" /\ rt.mode = "call"
    /\ LET pair == << rt.val1, rt.val2 >>
           addr1 == rt.val1 - 1
           addr2 == rt.val2 - 1
       IN IF ~IsPointerPair(rt.val1, rt.val2)
          THEN /\ EqReturnForgetting(IF rt.val1 = rt.val2 THEN TRUE_VAL ELSE FALSE_VAL)
               /\ status' = status
          ELSE IF rt.val1 = rt.val2
          THEN /\ EqReturnForgetting(TRUE_VAL)
               /\ status' = status
          ELSE IF rt.val1 = NIL_VAL \/ rt.val2 = NIL_VAL
          THEN /\ EqReturnForgetting(FALSE_VAL)
               /\ status' = status
          ELSE IF pair \in rt.seen
          THEN /\ EqReturnForgetting(TRUE_VAL)
               /\ status' = status
          ELSE IF addr1 \notin DOMAIN mem \/ addr2 \notin DOMAIN mem
          THEN /\ rt' = [rt EXCEPT !.seen = rt.seen \cup {pair}]
               /\ status' = "segv"
          ELSE IF AsUsize(mem[addr1]) # AsUsize(mem[addr2])
          THEN /\ rt' = [rt EXCEPT !.mode = "ret", !.ret = FALSE_VAL,
                                   !.seen = rt.seen \cup {pair}]
               /\ status' = status
          ELSE IF Len(rt.stack) >= MaxEqualsDepth
          THEN /\ rt' = [rt EXCEPT !.seen = rt.seen \cup {pair}]
               /\ status' = "stack_overflow"
          ELSE /\ rt' = [rt EXCEPT !.mode = "loop",
                                   !.seen = rt.seen \cup {pair},
                                   !.log = Append(rt.log, pair),
                                   !.stack = Append(rt.stack,
                                       [val1 |-> rt.val1, val2 |-> rt.val2,
                                        addr1 |-> addr1, addr2 |-> addr2,
                                        size1 |-> AsUsize(mem[addr1]), i |-> 0])]
               /\ status' = status
    /\ UNCHANGED << sexpr, prog, argv, input, LABEL_CTR, code, pc, regs, flags, mem, frames,
                    out, exitcode, errmsg, allocated >>

\* The loop of snek_equals_helper over the elements of the two vectors.
EqLoop ==
    /\ status = "equals" /\ rt.mode = "loop"
    /\ LET d == Len(rt.stack)
           f == rt.stack[d]
           ea1 == f.addr1 + WORD_SIZE * (1 + f.i)
           ea2 == f.addr2 + WORD_SIZE * (1 + f.i)
       IN IF f.i < f.size1
          THEN IF ea1 \notin DOMAIN mem \/ ea2 \notin DOMAIN mem
               THEN /\ status' = "segv"
                    /\ rt' = rt
               ELSE /\ rt' = [rt EXCEPT !.mode = "call",
                                        !.val1 = mem[ea1], !.val2 = mem[ea2]]
                    /\ status' = status
          ELSE /\ rt' = [rt EXCEPT !.mode = "ret", !.ret = TRUE_VAL,
                                   !.val1 = f.val1, !.val2 = f.val2,
                                   !.seen = rt.seen \ {<< f.val1, f.val2 >>},
                                   !.stack = SubSeq(rt.stack, 1, d - 1)]
               /\ status' = status
    /\ UNCHANGED << sexpr, prog, argv, input, LABEL_CTR, code, pc, regs, flags, mem, frames,
                    out, exitcode, errmsg, allocated >>

\* A recursive snek_equals_helper returns into the loop of its caller, which
\* returns FALSE at once when the elements differ.
EqRet ==
    /\ status = "equals" /\ rt.mode = "ret" /\ rt.stack # <<>>
    /\ LET d == Len(rt.stack)
           f == rt.stack[d]
       IN IF rt.ret = FALSE_VAL
          THEN rt' = [rt EXCEPT !.val1 = f.val1, !.val2 = f.val2,
                                !.stack = SubSeq(rt.stack, 1, d - 1)]
          ELSE rt' = [rt EXCEPT !.mode = "loop", !.stack[d].i = f.i + 1]
    /\ UNCHANGED << sexpr, prog, argv, input, LABEL_CTR, code, status, pc, regs, flags, mem, frames,
                    out, exitcode, errmsg, allocated >>

\* snek_equals(RDI, RSI) is called.
EqualsCall ==
    /\ status = "idle"
    /\ status' = "equals"
    /\ rt' = snek_equals(regs["RDI"], regs["RSI"])
    /\ UNCHANGED << sexpr, prog, argv, input, LABEL_CTR, code, pc, regs, flags, mem, frames,
                    out, exitcode, errmsg, allocated >>

\* snek_equals returns what the outermost snek_equals_helper returned.
EqualsDone ==
    /\ status = "equals" /\ rt.mode = "ret" /\ rt.stack = <<>>
    /\ status' = "equal_done"
    /\ regs' = [regs EXCEPT !["RAX"] = rt.ret]
    /\ UNCHANGED << sexpr, prog, argv, input, LABEL_CTR, code, pc, flags, mem, frames,
                    out, exitcode, errmsg, rt, allocated >>

\* The pairs of values snek_equals is called with.
EqualsArgs ==
    ({PtrA, PtrB} \X {PtrA, PtrB})
    \cup { << Shl(1, 1), Shl(1, 1) >>, << Shl(1, 1), PtrA >>, << NIL_VAL, PtrA >>,
           << TRUE_VAL, FALSE_VAL >> }

\* Two more vectors, c and d, of one element each, after a and b.
VecC == VecB + WORD_SIZE * (MaxElems + 1)
VecD == VecC + WORD_SIZE * 2
PtrC == VecC + 1
PtrD == VecD + 1

\* The heaps in layers: a and b hold nil and pointers to c and d, c holds the
\* number elem_c and d the number 1.
LayeredShapes == UNION { [1..k -> {NIL_VAL, PtrC, PtrD}] : k \in 1..MaxElems }
LayeredHeapOf(a, b, elem_c) ==
    [addr \in HeapAddrs \cup StackAddrs |->
       IF addr \in {VecC, VecD} THEN 1
       ELSE IF addr = VecC + WORD_SIZE THEN elem_c
       ELSE IF addr = VecD + WORD_SIZE THEN Shl(1, 1)
       ELSE HeapOf(a, b)[addr]]

\* The pairs of values snek_equals is called with on these heaps.
LayeredArgs ==
    { << PtrA, PtrB >>, << PtrB, PtrA >>, << PtrA, PtrA >>, << PtrA, NIL_VAL >>,
      << NIL_VAL, PtrA >>, << NIL_VAL, NIL_VAL >>, << PtrA, Shl(1, 1) >>,
      << Shl(1, 1), PtrA >>, << PtrC, PtrD >>, << PtrA, PtrC >> }

InitEquals ==
    \/ \E a \in VecShapes : \E b \in VecShapes : \E args \in EqualsArgs :
        /\ RuntimeOnly(HeapOf(a, b), args[1], args[2])
        /\ rt = IdleRt
    \/ \E a \in LayeredShapes : \E b \in LayeredShapes :
         \E elem_c \in {Shl(1, 1), Shl(2, 1)} : \E args \in LayeredArgs :
        /\ RuntimeOnly(LayeredHeapOf(a, b, elem_c), args[1], args[2])
        /\ rt = IdleRt

NextEquals == EqualsCall \/ EqCall \/ EqLoop \/ EqRet \/ EqualsDone

SpecEquals == InitEquals /\ [][NextEquals]_vars

\* C5: snek_equals terminates on every pair of values, also on cyclic heaps
\* such as v = [v, v] compared with w = [w, w]: a pair of pointers that is met
\* again while it is under comparison is not descended into again, and the
\* recursion never exhausts the stack.
C5_EqualsTerminates ==
    status \in {"equals", "stack_overflow"} =>
        /\ \A i, j \in 1..Len(rt.stack) :
             (rt.stack[i].val1 = rt.stack[j].val1 /\ rt.stack[i].val2 = rt.stack[j].val2)
                 => i = j
        /\ status # "stack_overflow"

\* The pointers to the vectors of the heaps.
VecPtrs == {PtrA, PtrB, PtrC, PtrD}

\* The vectors the elements of the vectors of ps point to.
PointedBy(h, ps) ==
    UNION { { h[p - 1 + WORD_SIZE * i] : i \in 1..h[p - 1] } : p \in ps } \cap VecPtrs

\* No vector of the heap is reached from its own elements.
Acyclic(h) ==
    \A p \in VecPtrs :
        LET r1 == PointedBy(h, {p})
            r2 == PointedBy(h, r1)
            r3 == PointedBy(h, r2)
            r4 == PointedBy(h, r3)
        IN p \notin r1 \cup r2 \cup r3 \cup r4

\* Structural equality of two words on an acyclic heap: two vectors of equal
\* length with structurally equal elements, or the same word.
RECURSIVE StructurallyEqual(_, _, _)
StructurallyEqual(h, w1, w2) ==
    IF w1 \in VecPtrs /\ w2 \in VecPtrs
    THEN /\ h[w1 - 1] = h[w2 - 1]
         /\ \A i \in 1..h[w1 - 1] :
              StructurallyEqual(h, h[w1 - 1 + WORD_SIZE * i], h[w2 - 1 + WORD_SIZE * i])
    ELSE w1 = w2

\* C24: on an acyclic heap snek_equals(a, b) returns true exactly when a and
\* b are structurally equal (the same non-pointer word, both nil, or vectors
\* of equal length with structurally equal elements) and false otherwise,
\* without fault; so it is reflexive and symmetric, and a vector equals
\* neither nil nor a non-pointer.
C24_StructuralEquality ==
    Acyclic(mem) =>
        /\ status \notin {"segv", "stack_overflow"}
        /\ status = "equal_done" =>
             regs["RAX"] = IF StructurallyEqual(mem, regs["RDI"], regs["RSI"])
                           THEN TRUE_VAL ELSE FALSE_VAL

\* a = [c, nil] and b = [d, nil] with c = [1] and d = [1] were found equal,
\* after the descent into a and b and into c and d.
C24_Witness ==
    /\ status = "equal_done" /\ regs["RAX"] = TRUE_VAL
    /\ regs["RDI"] = PtrA /\ regs["RSI"] = PtrB
    /\ mem[VecA + WORD_SIZE] = PtrC /\ mem[VecB + WORD_SIZE] = PtrD
    /\ mem[VecA] = 2 /\ mem[VecA + 2 * WORD_SIZE] = NIL_VAL
    /\ rt.log = << << PtrA, PtrB >>, << PtrC, PtrD >> >>

\* ------------------------------------------------------------------------
\* The runtime's main on the arguments of the run, for the program `input`
\* ------------------------------------------------------------------------

\* The longest argument made of the characters below.
MaxInputLen == 3

InputChars == {"-", "+", "0", "1", "7", "x"}

\* The numbers at the ends of the number range and of the range of i64.
BoundaryNumbers ==
    {I63_MAX, I63_MAX + 1, I63_MIN, I63_MIN - 1, MaxWord, MaxWord + 1, MinWord, MinWord - 1}

InputTexts ==
    UNION { [1..n -> InputChars] : n \in 0..MaxInputLen }
    \cup { ToDecimal(n) : n \in BoundaryNumbers }
    \cup { << "+" >> \o ToDecimal(I63_MAX), << "0" >> \o ToDecimal(I63_MAX),
           STR_TRUE, STR_FALSE, STR_NIL, << "T", "r", "u", "e" >> }

\* No argument, one argument, two arguments.
ArgLists ==
    { << PROGRAM_NAME >>, << PROGRAM_NAME, << "1" >>, << "7" >> >> }
    \cup { << PROGRAM_NAME, t >> : t \in InputTexts }

\* The program whose main expression is input.
InputProgram == Program(<<>>, EId("input"))

InitInput ==
    \E a \in ArgLists : \E fill \in JunkWords :
        /\ sexpr = NoSexp
        /\ RunOf(InputProgram, a, 0, "start", fill)

\* main: parse_input of the argument, or of "false"; a panic ends the process
\* with exit code 101.
ParseInput ==
    /\ status = "start"
    /\ IF parse_input(InputArg(argv)).panic # ""
       THEN /\ status' = "panicked"
            /\ errmsg' = parse_input(InputArg(argv)).panic
            /\ exitcode' = 101
            /\ UNCHANGED << input, regs, frames >>
       ELSE /\ status' = "compile"
            /\ input' = parse_input(InputArg(argv)).val
            /\ regs' = EntryRegs(parse_input(InputArg(argv)).val)
            /\ frames' = << [fn |-> "our_code_starts_here",
                             regs |-> EntryRegs(parse_input(InputArg(argv)).val),
                             ret |-> RET_TO_MAIN] >>
            /\ UNCHANGED << errmsg, exitcode >>
    /\ UNCHANGED << sexpr, prog, argv, LABEL_CTR, code, pc, flags, mem, out, rt, allocated >>

NextInput ==
    \/ ParseInput
    \/ Compile
    \/ ExecInstr
    \/ ExecRet
    \/ MainPrint
    \/ StrCall
    \/ MainExit

SpecInput == InitInput /\ [][NextInput]_vars

\* s without its leading zeros.
RECURSIVE StripZeros(_)
StripZeros(s) == IF Len(s) > 1 /\ s[1] = "0" THEN StripZeros(Tail(s)) ELSE s

\* s is an optional sign followed by at least one decimal digit.
IsDecimalInteger(s) ==
    LET digits == IF s # <<>> /\ s[1] \in {"+", "-"} THEN Tail(s) ELSE s
    IN digits # <<>> /\ \A i \in 1..Len(digits) : IsDigitChar(digits[i])

\* The canonical text of an argument: true, false, or the decimal integer
\* without a plus sign, leading zeros or a sign of zero.
CanonicalText(s) ==
    IF s \in {STR_TRUE, STR_FALSE} THEN s
    ELSE LET digits == StripZeros(IF s[1] \in {"+", "-"} THEN Tail(s) ELSE s)
         IN IF s[1] = "-" /\ digits # << "0" >> THEN << "-" >> \o digits ELSE digits

\* The numbers of the 63-bit range, by their canonical text.
NumberTexts == { ToDecimal(n) : n \in I63_MIN..I63_MAX }

\* The argument is true, false or a decimal integer of the number range.
Accepted(s) ==
    \/ s \in {STR_TRUE, STR_FALSE}
    \/ IsDecimalInteger(s) /\ CanonicalText(s) \in NumberTexts

\* The value an accepted argument stands for.
ValueOf(s) ==
    IF s = STR_TRUE THEN 7
    ELSE IF s = STR_FALSE THEN 3
    ELSE 2 * (CHOOSE n \in I63_MIN..I63_MAX : ToDecimal(n) = CanonicalText(s))

\* C15: parse_input maps "true" to 7, "false" to 3 and a decimal integer n of
\* the number range to n shifted left by one, and aborts for every other
\* argument; no argument is "false".  The value handed to the generated code
\* is a tagged number or boolean, and printing it gives the canonical text of
\* the argument.
C15_ParseInput ==
    /\ status = "panicked" => ~Accepted(InputArg(argv))
    /\ status \notin {"start", "panicked"} =>
         /\ Accepted(InputArg(argv))
         /\ input = ValueOf(InputArg(argv))
         /\ input \in {FALSE_VAL, TRUE_VAL} \/ (input % 2 = 0 /\ InWord(input))
         /\ Len(argv) # 2 => input = FALSE_VAL
    /\ status = "running" => (regs["RDI"] = input /\ TagSound(regs["RDI"]))
    /\ status = "done" => out = CanonicalText(InputArg(argv)) \o NEWLINE

\* The argument +07 was printed as 7.
C15_Witness ==
    /\ argv = << PROGRAM_NAME, << "+", "0", "7" >> >>
    /\ status = "done" /\ out = << "7" >> \o NEWLINE

\* ------------------------------------------------------------------------
\* The parser (src/src/parser.rs), on the syntax of src/src/syntax.rs
\* ------------------------------------------------------------------------

\* The result of a parse function: what it returns, or the message of its
\* panic.
Parsed(x) == [err |-> "", x |-> x]
ParsePanic(msg) == [err |-> msg, x |-> ENil]

\* Returns true if the given string is a language keyword.
is_keyword(s) ==
    s \in { "true", "false", "input", "nil",
            "add1", "sub1", "isnum", "isbool", "print",
            "let", "set!",
            "if", "block", "loop", "break",
            "fun",
            "vec", "vec-get", "vec-set!",
            "+", "-", "*", "<", "=", "<=", ">=", "==" }

\* The operators the unary and binary patterns of parse_sexpr match.
Op1Of(op) ==
    CASE op = "isnum" -> "IsNum" [] op = "isbool" -> "IsBool" [] op = "isvec" -> "IsVec"
      [] op = "add1" -> "Add1" [] op = "sub1" -> "Sub1" [] op = "print" -> "Print"
Op2Of(op) ==
    CASE op = "+" -> "Plus" [] op = "-" -> "Minus" [] op = "*" -> "Times"
      [] op = "=" -> "Equal" [] op = ">" -> "Greater" [] op = ">=" -> "GreaterEqual"
      [] op = "<" -> "Less" [] op = "<=" -> "LessEqual" [] op = "==" -> "StructEqual"
Op1Words == { "isnum", "isbool", "isvec", "add1", "sub1", "print" }
Op2Words == { "+", "-", "*", "=", ">", ">=", "<", "<=", "==" }

RECURSIVE parse_sexpr(_)
RECURSIVE parse_exprs(_, _)
RECURSIVE parse_binds(_, _)

\* exprs.iter().map(parse_sexpr).collect(), from item i on.
parse_exprs(items, i) ==
    IF i > Len(items) THEN Parsed(<<>>)
    ELSE LET r == parse_sexpr(items[i])
             rest == parse_exprs(items, i + 1)
         IN IF r.err # "" THEN r
            ELSE IF rest.err # "" THEN rest
            ELSE Parsed(<< r.x >> \o rest.x)

\* Parses a single let binding.
parse_bind(sexpr1) ==
    IF sexpr1.k # "List" THEN ParsePanic("Invalid: ")
    ELSE IF ~(Len(sexpr1.items) = 2 /\ sexpr1.items[1].k = "S") THEN ParsePanic("Invalid")
    ELSE IF is_keyword(sexpr1.items[1].s)
    THEN ParsePanic("Invalid: let binding variable " \o sexpr1.items[1].s
                    \o " is a reserved keyword")
    ELSE LET r == parse_sexpr(sexpr1.items[2])
         IN IF r.err # "" THEN r ELSE Parsed(<< sexpr1.items[1].s, r.x >>)

\* vec.iter().map(parse_bind).collect(), from item i on.
parse_binds(items, i) ==
    IF i > Len(items) THEN Parsed(<<>>)
    ELSE LET r == parse_bind(items[i])
             rest == parse_binds(items, i + 1)
         IN IF r.err # "" THEN r
            ELSE IF rest.err # "" THEN rest
            ELSE Parsed(<< r.x >> \o rest.x)

\* Parses 1 or more let bindings.
parse_bindings(sexpr1) ==
    IF sexpr1.k = "List" THEN parse_binds(sexpr1.items, 1) ELSE ParsePanic("Invalid")

\* A pattern [Sexp::Atom(S(op)), ..] of n items whose first is the word op.
HeadIs(v, n, words) == Len(v) = n /\ v[1].k = "S" /\ v[1].s \in words

\* The arms of parse_sexpr for the lists, the items already parsed where the
\* arm parses them: es is parse_exprs of the items after the first.
parse_list(v, es) ==
    IF HeadIs(v, 2, Op1Words)
    THEN IF es.err # "" THEN es ELSE Parsed(EUnOp(Op1Of(v[1].s), es.x[1]))
    ELSE IF HeadIs(v, 4, { "if" })
    THEN IF es.err # "" THEN es ELSE Parsed(EIf(es.x[1], es.x[2], es.x[3]))
    ELSE IF HeadIs(v, 3, Op2Words)
    THEN IF es.err # "" THEN es ELSE Parsed(EBinOp(Op2Of(v[1].s), es.x[1], es.x[2]))
    ELSE IF HeadIs(v, 3, { "let" })
    THEN LET bs == parse_bindings(v[2])
             body == parse_sexpr(v[3])
         IN IF bs.err # "" THEN bs
            ELSE IF bs.x = <<>> THEN ParsePanic("Invalid: no bindings")
            ELSE IF body.err # "" THEN body
            ELSE Parsed(ELet(bs.x, body.x))
    ELSE IF HeadIs(v, 3, { "set!" }) /\ v[2].k = "S"
    THEN IF is_keyword(v[2].s)
         THEN ParsePanic("Invalid: " \o v[2].s \o " cannot be used as a variable identifier")
         ELSE LET r == parse_sexpr(v[3])
              IN IF r.err # "" THEN r ELSE Parsed(ESet(v[2].s, r.x))
    ELSE IF Len(v) >= 1 /\ v[1].k = "S" /\ v[1].s = "block"
    THEN IF es.err # "" THEN es
         ELSE IF es.x = <<>> THEN ParsePanic("Invalid: no expressions for block")
         ELSE Parsed(EBlock(es.x))
    ELSE IF HeadIs(v, 2, { "loop" })
    THEN IF es.err # "" THEN es ELSE Parsed(ELoop(es.x[1]))
    ELSE IF HeadIs(v, 2, { "break" })
    THEN IF es.err # "" THEN es ELSE Parsed(EBreak(es.x[1]))
    ELSE IF Len(v) >= 2 /\ v[1].k = "S" /\ v[1].s = "vec"
    THEN IF es.err # "" THEN es ELSE Parsed(EVec(es.x))
    ELSE IF HeadIs(v, 3, { "vec-get" })
    THEN IF es.err # "" THEN es ELSE Parsed(EVecGet(es.x[1], es.x[2]))
    ELSE IF HeadIs(v, 4, { "vec-set!" })
    THEN IF es.err # "" THEN es ELSE Parsed(EVecSet(es.x[1], es.x[2], es.x[3]))
    ELSE IF HeadIs(v, 2, { "vec-len" })
    THEN IF es.err # "" THEN es ELSE Parsed(EVecLen(es.x[1]))
    ELSE IF HeadIs(v, 3, { "make-vec" })
    THEN IF es.err # "" THEN es ELSE Parsed(EMakeVec(es.x[1], es.x[2]))
    ELSE IF Len(v) >= 1 /\ v[1].k = "S"
    THEN IF is_keyword(v[1].s)
         THEN ParsePanic("Invalid: function " \o v[1].s \o " is a reserved keyword")
         ELSE IF es.err # "" THEN es ELSE Parsed(ECall(v[1].s, es.x))
    ELSE ParsePanic("Invalid: ")

\* Converts an Sexp to an Expr.  Panics if there was an error.
parse_sexpr(sexpr1) ==
    IF sexpr1.k = "I" THEN Parsed(ENumber(sexpr1.i))
    ELSE IF sexpr1.k = "S"
    THEN IF sexpr1.s = "false" THEN Parsed(EBoolean(FALSE))
         ELSE IF sexpr1.s = "true" THEN Parsed(EBoolean(TRUE))
         ELSE IF sexpr1.s = "input" THEN Parsed(EInput)
         ELSE IF sexpr1.s = "nil" THEN Parsed(ENil)
         ELSE IF is_keyword(sexpr1.s)
         THEN ParsePanic("Invalid: " \o sexpr1.s \o " cannot be used as a variable identifier")
         ELSE Parsed(EId(sexpr1.s))
    ELSE parse_list(sexpr1.items,
                    parse_exprs(sexpr1.items, 2))

\* Returns true if the S-expression is a function definition.
is_fundef(sexpr1) ==
    /\ sexpr1.k = "List"
    /\ Len(sexpr1.items) = 3
    /\ sexpr1.items[1] = AtomS("fun")
    /\ sexpr1.items[2].k = "List"

\* Parses the parameter.
parse_param(sexpr1) ==
    IF sexpr1.k # "S" THEN ParsePanic("Invalid function parameter")
    ELSE IF is_keyword(sexpr1.s)
    THEN ParsePanic("Invalid: parameter " \o sexpr1.s \o " is a reserved keyword")
    ELSE Parsed(sexpr1.s)

RECURSIVE parse_params(_, _)
\* params.iter().map(parse_param).collect(), from item i on.
parse_params(items, i) ==
    IF i > Len(items) THEN Parsed(<<>>)
    ELSE LET r == parse_param(items[i])
             rest == parse_params(items, i + 1)
         IN IF r.err # "" THEN r
            ELSE IF rest.err # "" THEN rest
            ELSE Parsed(<< r.x >> \o rest.x)

\* Parses the function definition.
parse_definition(s) ==
    IF s.k # "List" THEN ParsePanic("Definition is a not a List")
    ELSE IF ~is_fundef(s) THEN ParsePanic("fun keyword not found")
    ELSE LET name_and_params == s.items[2].items
         IN IF ~(Len(name_and_params) >= 1 /\ name_and_params[1].k = "S")
            THEN ParsePanic("Invalid function definition syntax")
            ELSE IF is_keyword(name_and_params[1].s)
            THEN ParsePanic("Invalid: function " \o name_and_params[1].s
                            \o " is a reserved keyword")
            ELSE LET ps == parse_params(name_and_params, 2)
                     body == parse_sexpr(s.items[3])
                 IN IF ps.err # "" THEN ps
                    ELSE IF body.err # "" THEN body
                    ELSE Parsed(Definition(name_and_params[1].s, ps.x, body.x))

RECURSIVE parse_items(_, _, _, _)
\* The loop of parse_program over the items of the list, from item i on; defs
\* are the definitions parsed so far.
parse_items(sexpr1, i, defs, parsing_main_only) ==
    IF i > Len(sexpr1.items)
    THEN ParsePanic("Invalid: Only found definitions, no main expression")
    ELSE IF is_fundef(sexpr1.items[i])
    THEN LET d == parse_definition(sexpr1.items[i])
         IN IF d.err # "" THEN d
            ELSE parse_items(sexpr1, i + 1, defs \o << d.x >>, FALSE)
    ELSE LET main == IF parsing_main_only THEN parse_sexpr(sexpr1)
                     ELSE parse_sexpr(sexpr1.items[i])
         IN IF main.err # "" THEN main ELSE Parsed(Program(defs, main.x))

\* Parses an S-expression into a Snek program.
parse_program(sexpr1) ==
    IF sexpr1.k = "List" THEN parse_items(sexpr1, 1, <<>>, TRUE)
    ELSE LET main == parse_sexpr(sexpr1)
         IN IF main.err # "" THEN main ELSE Parsed(Program(<<>>, main.x))

\* ------------------------------------------------------------------------
\* The specification of parse_program on programs that use a word as a name
\* ------------------------------------------------------------------------

\* The reserved words of the language surface.
ReservedWords ==
    { "true", "false", "input", "nil", "add1", "sub1", "isnum", "isbool", "isvec",
      "print", "let", "set!", "if", "block", "loop", "break", "fun",
      "vec", "vec-get", "vec-set!", "vec-len", "make-vec",
      "+", "-", "*", "<", "<=", ">", ">=", "=", "==" }

\* The words the programs use as names: the reserved ones and two others.
Words == ReservedWords \cup { "x", "foo" }

\* (add1 w): w as a variable reference.
AsReference(w) == List(<< AtomS("add1"), AtomS(w) >>)
\* (let ((w 1)) 2): w as a let-bound name.
AsLetBound(w) ==
    List(<< AtomS("let"), List(<< List(<< AtomS(w), AtomI(1) >>) >>), AtomI(2) >>)
\* (let ((y 1)) (set! w 2)): w as a set! target.
AsSetTarget(w) ==
    List(<< AtomS("let"), List(<< List(<< AtomS("y"), AtomI(1) >>) >>),
            List(<< AtomS("set!"), AtomS(w), AtomI(2) >>) >>)
\* ((fun (w a) a) 1): w as a function name.
AsFunctionName(w) ==
    List(<< List(<< AtomS("fun"), List(<< AtomS(w), AtomS("a") >>), AtomS("a") >>),
            AtomI(1) >>)
\* ((fun (f w) 1) 1): w as a parameter name.
AsParameter(w) ==
    List(<< List(<< AtomS("fun"), List(<< AtomS("f"), AtomS(w) >>), AtomI(1) >>),
            AtomI(1) >>)

NamingSexprs ==
    UNION { { AsReference(w), AsLetBound(w), AsSetTarget(w), AsFunctionName(w),
              AsParameter(w) } : w \in Words }

InitParse ==
    \E sx \in NamingSexprs :
        /\ sexpr = sx
        /\ RunOf(Program(<<>>, ENil), << PROGRAM_NAME >>, FALSE_VAL, "parse", 0)

\* The result r of parse_program: the program, or the panic of the compiler.
ParsedAs(r) ==
    IF r.err # ""
    THEN /\ status' = "parse_error"
         /\ errmsg' = r.err
         /\ UNCHANGED prog
    ELSE /\ status' = "parsed"
         /\ prog' = r.x
         /\ UNCHANGED errmsg

\* main of the compiler: parse_program of the S-expression read.
ParseProgram ==
    /\ status = "parse"
    /\ ParsedAs(parse_program(sexpr))
    /\ UNCHANGED << sexpr, argv, input, LABEL_CTR, code, pc, regs, flags, mem, frames,
                    out, exitcode, rt, allocated >>

NextParse == ParseProgram

SpecParse == InitParse /\ [][NextParse]_vars

\* The names an expression uses as variables, let-bound names, set! targets
\* and called functions.
RECURSIVE NamesIn(_)
NamesInAll(es) == UNION { NamesIn(es[i]) : i \in 1..Len(es) }
NamesIn(e) ==
    CASE e.t \in { "Number", "Boolean", "Input", "Nil" } -> {}
      [] e.t = "Id" -> { e.s }
      [] e.t = "Let" ->
           { e.bindings[i][1] : i \in 1..Len(e.bindings) }
           \cup UNION { NamesIn(e.bindings[i][2]) : i \in 1..Len(e.bindings) }
           \cup NamesIn(e.body)
      [] e.t \in { "UnOp", "Loop", "Break", "VecLen" } -> NamesIn(e.e)
      [] e.t \in { "BinOp", "VecGet", "MakeVec" } -> NamesIn(e.e1) \cup NamesIn(e.e2)
      [] e.t = "If" -> NamesIn(e.cond) \cup NamesIn(e.then_ex) \cup NamesIn(e.else_ex)
      [] e.t = "Set" -> { e.name } \cup NamesIn(e.e)
      [] e.t = "Block" -> NamesInAll(e.exprs)
      [] e.t = "Call" -> { e.funname } \cup NamesInAll(e.args)
      [] e.t = "Vec" -> NamesInAll(e.args)
      [] e.t = "VecSet" -> NamesIn(e.e1) \cup NamesIn(e.e2) \cup NamesIn(e.e3)

\* The names of a program: of its functions, their parameters, and those its
\* expressions use.
NamesOf(p) ==
    { p.defs[i].name : i \in 1..Len(p.defs) }
    \cup UNION { { p.defs[i].params[j] : j \in 1..Len(p.defs[i].params) }
                 \cup NamesIn(p.defs[i].body) : i \in 1..Len(p.defs) }
    \cup NamesIn(p.main)

\* C23: no reserved word is accepted as an identifier.  A program that uses
\* one as a variable reference, a let-bound name, a set! target, a function
\* name or a parameter name is rejected: no program the parser returns has a
\* reserved word among its names.
C23_ReservedWords ==
    status = "parsed" => NamesOf(prog) \cap ReservedWords = {}


\* ------------------------------------------------------------------------
\* compile_program called more than once in one process
\* ------------------------------------------------------------------------

\* compile_program is called while LABEL_CTR is below this.
MaxLabelCtr == 8

RecompilePrograms == BreakPrograms \cup ScopePrograms \cup {LabelShapedProgram}

InitRecompile ==
    \E p \in RecompilePrograms :
        RunOf(p, << PROGRAM_NAME >>, FALSE_VAL, "compile", 0) /\ sexpr = NoSexp

\* The caller holds what compile_program returned for p; a panic of the
\* compiler ends the process.
Recompiled(p, cp) ==
    /\ prog' = p
    /\ LABEL_CTR' = cp.ctr
    /\ IF cp.err # ""
       THEN /\ status' = "compile_error"
            /\ errmsg' = cp.err
            /\ UNCHANGED code
       ELSE /\ code' = AsmProgram(cp)
            /\ UNCHANGED << status, errmsg >>

\* One more call of compile_program; the static LABEL_CTR is as the
\* previous call left it.
CompileAgain ==
    /\ status = "compile"
    /\ LABEL_CTR < MaxLabelCtr
    /\ \E p \in RecompilePrograms :
           Recompiled(p, compile_program(p, "our_code_starts_here", LABEL_CTR))
    /\ UNCHANGED << sexpr, argv, input, pc, regs, flags, mem, frames, out, exitcode, rt,
                    allocated >>

NextRecompile == CompileAgain

SpecRecompile == InitRecompile /\ [][NextRecompile]_vars

\* The instructions compile_program returns when LABEL_CTR is 0 at the call.
FreshCode(p) == AsmProgram(compile_program(p, "our_code_starts_here", 0))

\* C27: the label counter is reset at the start of each compilation: what a
\* call of compile_program returns is what the first call of a process
\* returns for the same program, whatever was compiled before.
C27_CounterReset == (status = "compile" /\ code # <<>>) => code = FreshCode(prog)


\* ------------------------------------------------------------------------
\* The renderer (src/src/assembly.rs) as main of the compiler calls it
\* ------------------------------------------------------------------------

Rendered(text) == [text |-> text, panic |-> FALSE]
Unhandled      == [text |-> "", panic |-> TRUE]

\* The arms for Reg::R14 and Reg::RDX. compile_program names both registers
\* in the entry code; the enum that declares them and their arms are in no
\* file of src/.
undeclared_reg_to_str(r) == IF r = "R14" THEN "r14" ELSE "rdx"

\* The arms Val::Reg(..) of val_to_str.
reg_to_str(r) ==
    CASE r = "RAX" -> "rax"
      [] r = "RBX" -> "rbx"
      [] r = "RDI" -> "rdi"
      [] r = "RSI" -> "rsi"
      [] r = "RSP" -> "rsp"
      [] r = "R12" -> "r12"
      [] r = "R13" -> "r13"
      [] r = "R15" -> "r15"
      [] OTHER     -> undeclared_reg_to_str(r)

\* The body shared by the arms Val::RegOff(..) of val_to_str.
regoff_to_str(reg, offset) ==
    IF offset > 0
    THEN "[" \o reg \o " - " \o ToString(offset) \o "]"
    ELSE "[" \o reg \o " + " \o ToString((-1) * offset) \o "]"

\* The registers val_to_str has an arm Val::RegOff(..) for.
RegOffArms == {"RAX", "RSP", "R12", "R15"}

val_to_str(val) ==
    CASE val.k = "Imm" -> Rendered(ToString(val.n))
      [] val.k = "Reg" -> Rendered(reg_to_str(val.r))
      [] val.k = "RegOff" /\ val.r \in RegOffArms ->
            Rendered(regoff_to_str(reg_to_str(val.r), val.n))
      [] OTHER -> Unhandled

Mnemonic(op) ==
    CASE op = "Mov" -> "mov"       [] op = "Add" -> "add"
      [] op = "Sub" -> "sub"       [] op = "Mul" -> "imul"
      [] op = "Cmp" -> "cmp"       [] op = "Test" -> "test"
      [] op = "CMove" -> "cmove"   [] op = "CMovg" -> "cmovg"
      [] op = "CMovge" -> "cmovge" [] op = "CMovl" -> "cmovl"
      [] op = "CMovle" -> "cmovle" [] op = "Sar" -> "sar"
      [] op = "And" -> "and"       [] op = "Or" -> "or"
      [] op = "Xor" -> "xor"       [] op = "Not" -> "not"
      [] op = "Jump" -> "jmp"      [] op = "JumpEqual" -> "je"
      [] op = "JumpNotEqual" -> "jne"      [] op = "JumpNotZero" -> "jnz"
      [] op = "JumpGreaterEqual" -> "jge"  [] op = "JumpLess" -> "jl"
      [] op = "JumpOverflow" -> "jo"       [] op = "Push" -> "push"
      [] op = "Pop" -> "pop"       [] op = "Call" -> "call"
      [] op = "Ret" -> "ret"

OneOperandOps == {"Not", "Push", "Pop"}
LabelOps == {"Jump", "JumpEqual", "JumpNotEqual", "JumpNotZero", "JumpGreaterEqual",
             "JumpLess", "JumpOverflow", "Call"}

\* format!("<mnemonic> {str_val1}, {str_val2}") of two rendered operands.
TwoOperands(op, s1, s2) ==
    IF s1.panic \/ s2.panic THEN Unhandled
    ELSE Rendered(Mnemonic(op) \o " " \o s1.text \o ", " \o s2.text)

OneOperand(op, s1) ==
    IF s1.panic THEN Unhandled ELSE Rendered(Mnemonic(op) \o " " \o s1.text)

instr_to_str(instr) ==
    CASE instr.op = "Label" -> Rendered(instr.l \o ":")
      [] instr.op \in LabelOps -> Rendered(Mnemonic(instr.op) \o " " \o instr.l)
      [] instr.op = "Ret" -> Rendered(Mnemonic(instr.op))
      [] instr.op \in OneOperandOps -> OneOperand(instr.op, val_to_str(instr.a))
      [] OTHER -> TwoOperands(instr.op, val_to_str(instr.a), val_to_str(instr.b))

InitRender ==
    \E p \in ClosedPrograms :
        RunOf(p, << PROGRAM_NAME >>, FALSE_VAL, "compile", 0) /\ sexpr = NoSexp

\* main of the compiler after compile_program returned cp: the error, function
\* and main instructions are formatted in this order.
ToFormat(cp) ==
    /\ LABEL_CTR' = cp.ctr
    /\ IF cp.err # ""
       THEN /\ status' = "compile_error"
            /\ errmsg' = cp.err
            /\ UNCHANGED << code, pc >>
       ELSE /\ status' = "format"
            /\ code' = AsmProgram(cp)
            /\ pc' = 1
            /\ UNCHANGED errmsg

CompileToFormat ==
    /\ status = "compile"
    /\ ToFormat(compile_program(prog, "our_code_starts_here", LABEL_CTR))
    /\ UNCHANGED << sexpr, prog, argv, input, regs, flags, mem, frames, out, exitcode, rt,
                    allocated >>

\* The line s of the instruction at pc is pushed, or the renderer panics.
Formatted(s) ==
    IF s.panic
    THEN /\ status' = "format_panic"
         /\ errmsg' = "Unhandled Instruction value"
         /\ UNCHANGED << pc, out >>
    ELSE /\ out' = Append(out, s.text)
         /\ pc' = pc + 1
         /\ UNCHANGED << status, errmsg >>

\* One iteration of the loop of format_instructions.
FormatInstr ==
    /\ status = "format"
    /\ pc <= Len(code)
    /\ Formatted(instr_to_str(code[pc]))
    /\ UNCHANGED << sexpr, prog, argv, input, LABEL_CTR, code, regs, flags, mem, frames,
                    exitcode, rt, allocated >>

\* The assembly text is written to the output file.
WriteAsm ==
    /\ status = "format"
    /\ pc > Len(code)
    /\ status' = "written"
    /\ UNCHANGED << sexpr, prog, argv, input, LABEL_CTR, code, pc, regs, flags, mem, frames,
                    out, exitcode, errmsg, rt, allocated >>

NextRender == CompileToFormat \/ FormatInstr \/ WriteAsm

SpecRender == InitRender /\ [][NextRender]_vars

\* A memory operand with base reg and displacement d in NASM text: the
\* displacement is subtracted from the register.
MemoryOperandText(reg, d) ==
    IF d > 0 THEN "[" \o reg \o " - " \o ToString(d) \o "]"
    ELSE "[" \o reg \o " + " \o ToString(-d) \o "]"

LowerCase(r) ==
    CASE r = "RAX" -> "rax" [] r = "RBX" -> "rbx" [] r = "RDI" -> "rdi"
      [] r = "RSI" -> "rsi" [] r = "RDX" -> "rdx" [] r = "RSP" -> "rsp"
      [] r = "R12" -> "r12" [] r = "R13" -> "r13" [] r = "R14" -> "r14"
      [] r = "R15" -> "r15"

MemoryOperandsOf(instr) == { v \in {instr.a, instr.b} : v.k = "RegOff" }

\* C28: the renderer does not panic on an instruction of an accepted program,
\* and every memory operand the compiler emitted is rendered as [reg - d] for
\* d > 0 and as [reg + |d|] for d <= 0.
C28_RendererTotal ==
    /\ status # "format_panic"
    /\ status \in {"format", "written"} =>
           \A i \in 1..Len(code) : \A v \in MemoryOperandsOf(code[i]) :
               val_to_str(v) = Rendered(MemoryOperandText(LowerCase(v.r), v.n))


\* ------------------------------------------------------------------------
\* Stack slots below the stack index of an expression
\* ------------------------------------------------------------------------

\* The tagged words of the guard bindings.
GuardWords == { 2 * GuardNumber(i) : i \in 1..MaxLets }

\* The stack words that hold the value of a guard binding.
GuardSlots == { a \in StackAddrs : mem[a] \in GuardWords }

\* No step of the emitted code, of a called function or of snek_print
\* changes a stack slot that holds a guard.
GuardsKept == prog \in GuardedPrograms => \A a \in GuardSlots : mem'[a] = mem[a]

\* C29: the code of an expression compiled at stack index si writes no stack
\* slot of its frame below si: the variables bound around the expression keep
\* their values while the expression runs, also across the calls of user
\* functions and of snek_print it makes.
C29_SlotNonInterference == [][GuardsKept]_vars

\* The guarded programs that print 4 and return 6 + (4 + (1 + 11)) = 22 have
\* ended with both guards in their slots.
C29_Witness ==
    /\ prog \in { Guarded(2, SpillAcrossCall), GuardedInFunction(2, SpillAcrossCall) }
    /\ status = "done" /\ exitcode = 0
    /\ out = << "4" >> \o NEWLINE \o << "2", "2" >> \o NEWLINE
    /\ { mem[a] : a \in GuardSlots } = GuardWords


\* ------------------------------------------------------------------------
\* The order in which the arguments of a call are evaluated
\* ------------------------------------------------------------------------

\* The lines n, n - 1, .., 1.
RECURSIVE LinesDownFrom(_)
LinesDownFrom(n) ==
    IF n = 0 THEN <<>> ELSE ToDecimal(n) \o NEWLINE \o LinesDownFrom(n - 1)

\* What PrintingArgs(n) writes: the arguments from the last to the first, the
\* 0 of the body, and the 0 the call returned.
ArgOrderOutput(n) == LinesDownFrom(n) \o << "0" >> \o NEWLINE \o << "0" >> \o NEWLINE

IsPrefix(s, t) == Len(s) <= Len(t) /\ s = SubSeq(t, 1, Len(s))

Ended == status \in {"done", "exited"}

\* C30: the arguments of a call are evaluated from the last to the first and
\* the call is made after all of them: prints appear in that order and before
\* the output of the callee, a set! in a later argument is seen by an earlier
\* one, and a trap in a later argument happens before any effect of an
\* earlier one, and the vector of a later argument is allocated below that of
\* an earlier one.
C30_ArgumentOrder ==
    /\ \A n \in 1..MaxArgs :
          prog = PrintingArgs(n) =>
              /\ IsPrefix(out, ArgOrderOutput(n))
              /\ status = "done" => out = ArgOrderOutput(n)
    /\ prog = SettingArgs /\ status = "done" => out = << "1" >> \o NEWLINE
    /\ prog = TrapInLastArg => out = <<>> /\ status # "done"
    /\ prog = AllocatingArgs /\ status = "done" =>
          /\ mem[HeapStart + WORD_SIZE] = TagNumber(2)
          /\ mem[HeapStart + 3 * WORD_SIZE] = TagNumber(1)
    /\ prog = TrapInFirstArg =>
          /\ IsPrefix(out, << "2" >> \o NEWLINE)
          /\ status # "done"
          /\ Ended => out = << "2" >> \o NEWLINE

\* The call with MaxArgs printing arguments has returned.
C30_Witness ==
    /\ prog = PrintingArgs(MaxArgs)
    /\ status = "done"
    /\ out = ArgOrderOutput(MaxArgs)

====
